---- MODULE Spec2Model ----
(***************************************************************************)
(* CutLog (src/app.js): the estimation engine.                             *)
(*                                                                         *)
(* JavaScript numbers are modelled as exact rationals <<n, d>> (d > 0, in  *)
(* lowest terms); Math.round is floor(x + 1/2).  The value NaN stands for  *)
(* every value Number() does not turn into a finite number (undefined,     *)
(* NaN, a non-numeric string).  A double differs from the rational only    *)
(* where a product such as 375 * 1.15 falls within an ulp of a rounding    *)
(* boundary; there a rounded bound can differ by 1 and toFixed(2) by 0.01. *)
(*                                                                         *)
(* A text is a sequence of characters; a character is a one-letter string  *)
(* for ASCII and the pinyin name of the character for Chinese ("mi","fan"  *)
(* is the rice alias of FOOD_DB).                                          *)
(***************************************************************************)
EXTENDS Integers, Sequences, FiniteSets, TLC

VARIABLES
    rangeArgs,   \* [mid, u]: the arguments of a boundedRange call
    range,       \* what boundedRange returned
    readback,    \* what getMealKcalRange returns for the meal stored with range
    mergeArgs,   \* [m1, m2]: the arguments of an autoMergeMeal call
    merged,      \* what autoMergeMeal returned
    series,      \* the heart-rate samples given to estimateWorkoutKcalFromSeries
    profile,     \* [sex, weightKg, age, calFactor]
    workout,     \* what estimateWorkoutKcalFromSeries returned
    text,        \* the text given to estimateKcalRangeFromText
    est,         \* what estimateKcalRangeFromText returned
    avgArgs,     \* the argument of an estimateWorkoutKcalFromAvgHR call
    avgKcal,     \* what estimateWorkoutKcalFromAvgHR returned
    engine,      \* which implementation-defined formats Date.parse accepts
    dateArg,     \* the argument of a tryParseDate call
    parsedDate,  \* what tryParseDate returned
    trimpArgs,   \* the argument of a trimpBanister call
    trimp,       \* what trimpBanister returned
    csvText,     \* the argument of a parseCSV call
    parsed,      \* what parseCSV returned
    csvCache,    \* csvCache: null or the parsed file waiting in the mapper
    mapperHidden, \* the csvMapper element has the class hidden
    colTime,     \* the value of the colTime select
    colHr,       \* the value of the colHr select
    workouts,    \* state.workouts, the newest first
    saved,       \* the workouts last written by saveState
    status,      \* the text last given to setStatus
    handed,      \* the series last passed to estimateWorkoutKcalFromSeries
    stateProfile, \* what getProfileComputed returns
    meals,       \* state.meals, the newest first
    savedMeals,  \* the meals last written by saveState
    photos,      \* the ids in the photos store
    editing,     \* window.__editingMealPhotoId and window.__editingMealOriginalId
    mealManual,  \* mealManual
    form,        \* the values of the meal form
    tasks,       \* the pending continuations and timers
    nextId,      \* the next value of uid()
    events,      \* the number of user events so far
    origin,      \* who wrote each result field last
    scenario     \* the edit and the add that followed it

\* the variables of the point estimator and of timestamp parsing
laterVars == <<avgArgs, avgKcal, engine, dateArg, parsedDate, trimpArgs, trimp,
               csvText, parsed, csvCache, mapperHidden, colTime, colHr, workouts, saved,
               status, handed, stateProfile, meals, savedMeals, photos, editing,
               mealManual, form, tasks, nextId, events, origin, scenario>>

vars == <<rangeArgs, range, readback, mergeArgs, merged, series, profile,
          workout, text, est, laterVars>>

\* a variable holds <<>> until it is set and <<v>> afterwards
None == <<>>
Some(v) == <<v>>

\* NaN is the pair no division produces
NaN == <<0, 0>>

-----------------------------------------------------------------------------
(* Numbers *)

RECURSIVE GCD(_, _)
GCD(a, b) == IF b = 0 THEN a ELSE GCD(b, a % b)

Abs(n) == IF n < 0 THEN -n ELSE n

\* the rational n/d in lowest terms, d > 0
Q(n, d) ==
    LET s == IF d < 0 THEN -1 ELSE 1
        g == GCD(Abs(n), Abs(d))
    IN  <<(s * n) \div g, (s * d) \div g>>

I(n) == <<n, 1>>
QAdd(a, b) ==
    LET g == GCD(a[2], b[2])
    IN  Q(a[1] * (b[2] \div g) + b[1] * (a[2] \div g), (a[2] \div g) * b[2])
QNeg(a) == <<-a[1], a[2]>>
QSub(a, b) == QAdd(a, QNeg(b))
QMul(a, b) ==
    LET g1 == GCD(Abs(a[1]), b[2])
        g2 == GCD(Abs(b[1]), a[2])
    IN  Q((a[1] \div g1) * (b[1] \div g2), (a[2] \div g2) * (b[2] \div g1))
QDiv(a, b) == QMul(a, Q(b[2], b[1]))
QLe(a, b) == QSub(a, b)[1] <= 0
QLt(a, b) == QSub(a, b)[1] < 0
QMax(a, b) == IF QLe(a, b) THEN b ELSE a
QMin(a, b) == IF QLe(a, b) THEN a ELSE b
QAbs(a) == <<Abs(a[1]), a[2]>>
IsInt(a) == a[2] = 1

\* Math.round: the nearest integer, halves upwards
Round(a) ==
    (a[1] \div a[2]) + (IF (a[1] % a[2]) >= a[2] - (a[1] % a[2]) THEN 1 ELSE 0)

\* Number.prototype.toFixed(k) read back as a number, scale = 10^k
ToFixed(a, scale) == Q(Round(QMul(a, I(scale))), scale)

Max(a, b) == IF a >= b THEN a ELSE b
Min(a, b) == IF a <= b THEN a ELSE b

safeNum(x, fallback) == IF x = NaN THEN fallback ELSE x

\* clamp that returns its argument
clamp_identity(x, a, b) == x

clamp(x, a, b) == QMax(a, QMin(b, x))

fmtK(v) == Round(v)

-----------------------------------------------------------------------------
(* Range arithmetic *)

\* the return value of boundedRange, given uu and low
rangeOfLow(mid, uu, low) ==
    [low |-> low, high |-> Max(low, Round(QMul(mid, QAdd(I(1), uu)))),
     mid |-> Round(mid), u |-> uu]

\* low, high and the return value of boundedRange, given uu
rangeOfU(mid, uu) == rangeOfLow(mid, uu, Max(0, Round(QMul(mid, QSub(I(1), uu)))))

\* boundedRange without the clamp of u
boundedRange_noClamp(mid, u) == rangeOfU(mid, u)

boundedRange(mid, u) == rangeOfU(mid, clamp(u, Q(5, 100), Q(60, 100)))

\* getMealKcalRange with (lo + hi) / 2 written lo + hi / 2
getMealKcalRange_precedence(m) ==
    IF m.finalRange # None /\ m.finalRange[1].kcalLow # 0 /\ m.finalRange[1].kcalHigh # 0
    THEN LET lo == Max(0, m.finalRange[1].kcalLow)
             hi == Max(lo, m.finalRange[1].kcalHigh)
         IN  [low |-> lo, high |-> hi, mid |-> Round(QAdd(I(lo), Q(hi, 2)))]
    ELSE LET r == boundedRange(safeNum(m.final.kcal, I(0)),
                               clamp(safeNum(m.unc, Q(35, 100)), Q(5, 100), Q(60, 100)))
         IN  [low |-> r.low, high |-> r.high, mid |-> r.mid]

\* m: [finalRange, final, unc]; finalRange is None or Some([kcalLow, kcalHigh])
getMealKcalRange(m) ==
    IF m.finalRange # None /\ m.finalRange[1].kcalLow # 0 /\ m.finalRange[1].kcalHigh # 0
    THEN LET lo == Max(0, m.finalRange[1].kcalLow)
             hi == Max(lo, m.finalRange[1].kcalHigh)
         IN  [low |-> lo, high |-> hi, mid |-> Round(Q(lo + hi, 2))]
    ELSE LET kcal == safeNum(m.final.kcal, I(0))
             u == clamp(safeNum(m.unc, Q(35, 100)), Q(5, 100), Q(60, 100))
             r == boundedRange(kcal, u)
         IN  [low |-> r.low, high |-> r.high, mid |-> r.mid]

MaxMid == 12
MidDen == 4
UStep == 5

MidInputs == {Q(k, MidDen) : k \in 0..(MaxMid * MidDen)}
UInputs == {Q(k * UStep, 100) : k \in -1..((100 \div UStep) + 1)}

NoRange == rangeArgs = None /\ range = None /\ readback = None
NoMerge == mergeArgs = None /\ merged = None
NoWorkout == series = None /\ profile = None /\ workout = None
NoText == text = None /\ est = None
NoAvg == avgArgs = None /\ avgKcal = None
NoDateCall == engine = None /\ dateArg = None /\ parsedDate = None
NoTrimp == trimpArgs = None /\ trimp = None
NoCsv == csvText = None /\ parsed = None
importVars ==
    <<csvCache, mapperHidden, colTime, colHr, workouts, saved, status, handed, stateProfile>>
NoImport ==
    /\ csvCache = None /\ mapperHidden = None /\ colTime = None /\ colHr = None
    /\ workouts = None /\ saved = None /\ status = None /\ handed = None
    /\ stateProfile = None
mealVars ==
    <<meals, savedMeals, photos, editing, mealManual, form, tasks, nextId, events, origin,
      scenario>>
NoMeals ==
    /\ meals = None /\ savedMeals = None /\ photos = None /\ editing = None
    /\ mealManual = None /\ form = None /\ tasks = None /\ nextId = None
    /\ events = None /\ origin = None /\ scenario = None
NoLater == NoAvg /\ NoDateCall /\ NoTrimp /\ NoCsv /\ NoImport /\ NoMeals

InitRange ==
    /\ rangeArgs \in {Some(a) : a \in [mid : MidInputs, u : UInputs]}
    /\ range = None /\ readback = None
    /\ NoMerge /\ NoWorkout /\ NoText /\ NoLater

CallBoundedRange ==
    /\ rangeArgs # None /\ range = None
    /\ range' = Some(boundedRange(rangeArgs[1].mid, rangeArgs[1].u))
    /\ UNCHANGED <<rangeArgs, readback, mergeArgs, merged, series, profile,
                   workout, text, est, laterVars>>

CallGetMealKcalRange ==
    /\ range # None /\ readback = None
    /\ readback' = Some(getMealKcalRange(
                      [final |-> [kcal |-> rangeArgs[1].mid],
                       finalRange |-> Some([kcalLow |-> range[1].low,
                                            kcalHigh |-> range[1].high]),
                       unc |-> rangeArgs[1].u]))
    /\ UNCHANGED <<rangeArgs, range, mergeArgs, merged, series, profile,
                   workout, text, est, laterVars>>

NextRange == CallBoundedRange \/ CallGetMealKcalRange

SpecRange == InitRange /\ [][NextRange]_vars

\* the call boundedRange(mid, u) with mid >= 0 and u in [0, 1] has returned
RangeReturned ==
    /\ range # None
    /\ QLe(I(0), rangeArgs[1].mid)
    /\ QLe(I(0), rangeArgs[1].u) /\ QLe(rangeArgs[1].u, I(1))

\* C4 as stated: for mid >= 0 and u in [0, 1] the returned triple satisfies
\* 0 <= low <= mid <= high and high - low <= 1.2 * mid.
C4_Original ==
    RangeReturned =>
        /\ 0 <= range[1].low /\ range[1].low <= range[1].mid
        /\ range[1].mid <= range[1].high
        /\ QLe(I(range[1].high - range[1].low), QMul(Q(12, 10), rangeArgs[1].mid))

\* C4 amended: for mid >= 0 and u in [0, 1] the returned triple satisfies
\* 0 <= low <= mid <= high, its u is the argument clamped into [0.05, 0.60],
\* and high - low <= 1.2 * mid + 1: the two roundings add up to one unit.
C4_BoundedRange ==
    RangeReturned =>
        /\ 0 <= range[1].low /\ range[1].low <= range[1].mid
        /\ range[1].mid <= range[1].high
        /\ QLe(Q(5, 100), range[1].u) /\ QLe(range[1].u, Q(60, 100))
        /\ (QLe(Q(5, 100), rangeArgs[1].u) /\ QLe(rangeArgs[1].u, Q(60, 100))
              => range[1].u = rangeArgs[1].u)
        /\ QLe(I(range[1].high - range[1].low),
               QAdd(QMul(Q(12, 10), rangeArgs[1].mid), I(1)))

\* boundedRange(10, 1) returned: u was clamped to 0.60, the width is 1.2 * mid
C4_Witness ==
    /\ RangeReturned
    /\ rangeArgs[1].mid = I(10) /\ rangeArgs[1].u = I(1)
    /\ range[1].u = Q(60, 100)
    /\ range[1].high - range[1].low = 12

\* C5: for every mid >= 0 and every u, the mid recomputed by getMealKcalRange
\* from the low/high of boundedRange(mid, u) is within 1 of mid.
C5_RoundTrip ==
    readback # None =>
        QLe(QAbs(QSub(I(readback[1].mid), rangeArgs[1].mid)), I(1))

\* a round trip through a stored finalRange that does not give back round(mid)
C5_Witness ==
    /\ readback # None
    /\ range[1].low # 0
    /\ readback[1].low = range[1].low /\ readback[1].high = range[1].high
    /\ readback[1].mid # range[1].mid

-----------------------------------------------------------------------------
(* Estimate reconciliation *)

\* the relative difference |A - B| / max(A, B) of two positive numbers
RelDiff(A, B) == QDiv(QAbs(QSub(A, B)), QMax(A, B))

\* pick that averages also when the two values are far apart
pick_alwaysAverage(a, b) ==
    LET A == safeNum(a, I(0))
        B == safeNum(b, I(0))
    IN  IF QLe(A, I(0)) /\ QLe(B, I(0)) THEN I(0)
        ELSE IF QLe(A, I(0)) THEN B
        ELSE IF QLe(B, I(0)) THEN A
        ELSE QDiv(QAdd(A, B), I(2))

pick(a, b) ==
    LET A == safeNum(a, I(0))
        B == safeNum(b, I(0))
    IN  IF QLe(A, I(0)) /\ QLe(B, I(0)) THEN I(0)
        ELSE IF QLe(A, I(0)) THEN B
        ELSE IF QLe(B, I(0)) THEN A
        ELSE IF QLe(RelDiff(A, B), Q(15, 100)) THEN QDiv(QAdd(A, B), I(2))
        ELSE A

\* the uncertainty heuristic applied to disagreeing pairs only
mergeUnc_onlyFar(m1, m2) ==
    LET A == safeNum(m1.kcal, I(0))
        B == safeNum(m2.kcal, I(0))
    IN  IF QLt(I(0), A) /\ QLt(I(0), B)
        THEN IF QLe(RelDiff(A, B), Q(15, 100)) THEN Q(20, 100)
             ELSE clamp(QAdd(Q(2, 10), RelDiff(A, B)), Q(2, 10), Q(95, 100))
        ELSE Q(45, 100)

\* the uncertainty heuristic of autoMergeMeal, at least one estimate present
mergeUnc(m1, m2) ==
    LET A == safeNum(m1.kcal, I(0))
        B == safeNum(m2.kcal, I(0))
    IN  IF QLt(I(0), A) /\ QLt(I(0), B)
        THEN clamp(QAdd(Q(2, 10), RelDiff(A, B)), Q(2, 10), Q(95, 100))
        ELSE Q(45, 100)

\* m1, m2: [kcal, p, c, f], each a number or NaN
autoMergeMeal(m1, m2) ==
    LET has1 == QLt(I(0), safeNum(m1.kcal, I(0)))
        has2 == QLt(I(0), safeNum(m2.kcal, I(0)))
    IN  IF ~has1 /\ ~has2
        THEN [kcal |-> 0, p |-> I(0), c |-> I(0), f |-> I(0), unc |-> Q(35, 100)]
        ELSE [kcal |-> fmtK(pick(m1.kcal, m2.kcal)),
              p |-> ToFixed(pick(m1.p, m2.p), 10),
              c |-> ToFixed(pick(m1.c, m2.c), 10),
              f |-> ToFixed(pick(m1.f, m2.f), 10),
              unc |-> mergeUnc(m1, m2)]

MinMergeKcal == 84
MaxMergeKcal == 105

\* integer kcal values (the spec's data model), absent, zero and negative ones
MergeKcalInputs ==
    {NaN, I(-10), I(0), I(400)} \cup {I(k) : k \in MinMergeKcal..MaxMergeKcal}

MacroInputs ==
    { [p |-> NaN, c |-> NaN, f |-> NaN],
      [p |-> I(10), c |-> I(20), f |-> I(5)],
      [p |-> Q(105, 10), c |-> I(0), f |-> I(6)] }

MealEstimates ==
    { [kcal |-> k, p |-> x.p, c |-> x.c, f |-> x.f] :
        k \in MergeKcalInputs, x \in MacroInputs }

InitMerge ==
    /\ mergeArgs \in {Some(a) : a \in [m1 : MealEstimates, m2 : MealEstimates]}
    /\ merged = None
    /\ NoRange /\ NoWorkout /\ NoText /\ NoLater

CallAutoMergeMeal ==
    /\ mergeArgs # None /\ merged = None
    /\ merged' = Some(autoMergeMeal(mergeArgs[1].m1, mergeArgs[1].m2))
    /\ UNCHANGED <<rangeArgs, range, readback, mergeArgs, series, profile,
                   workout, text, est, laterVars>>

NextMerge == CallAutoMergeMeal

SpecMerge == InitMerge /\ [][NextMerge]_vars

\* the kcal of the two estimates as integers, 0 for an absent one
MergeA == IF mergeArgs[1].m1.kcal = NaN THEN 0 ELSE mergeArgs[1].m1.kcal[1]
MergeB == IF mergeArgs[1].m2.kcal = NaN THEN 0 ELSE mergeArgs[1].m2.kcal[1]
BothPresent == MergeA > 0 /\ MergeB > 0
\* |A - B| / max(A, B) <= 0.15
Within15 == 100 * Abs(MergeA - MergeB) <= 15 * Max(MergeA, MergeB)

\* C7: the merged kcal is the only estimate > 0 when there is exactly one, the
\* rounded average of two estimates within 15% of each other, and exactly the
\* first estimate when they differ by more than 15%.
C7_MergedKcal ==
    merged # None =>
        /\ (MergeA > 0 /\ MergeB <= 0 => merged[1].kcal = MergeA)
        /\ (MergeB > 0 /\ MergeA <= 0 => merged[1].kcal = MergeB)
        /\ (BothPresent /\ Within15
              => merged[1].kcal = (MergeA + MergeB + 1) \div 2)
        /\ (BothPresent /\ ~Within15 => merged[1].kcal = MergeA)

\* 100 vs 105 has been merged into 103
C7_Witness ==
    /\ merged # None
    /\ MergeA = 100 /\ MergeB = 105
    /\ merged[1].kcal = 103

\* C8 as stated: a disagreeing pair gets 0.2 + relative difference clamped
\* into [0.2, 0.95], and a pair that agrees within 15% gets no uncertainty
\* raised by its difference (nothing above the 0.2 the formula starts from).
C8_Original ==
    merged # None /\ BothPresent =>
        /\ (~Within15 =>
              merged[1].unc = clamp(QAdd(Q(2, 10), Q(Abs(MergeA - MergeB), Max(MergeA, MergeB))),
                                    Q(2, 10), Q(95, 100)))
        /\ (Within15 => QLe(merged[1].unc, Q(2, 10)))

\* C8 amended: whenever both estimates are present the uncertainty is
\* 0.2 + relative difference clamped into [0.2, 0.95], for agreeing pairs too:
\* above 0.35 for a pair that differs by more than 15% (>= 0.5 when the
\* difference is >= 30%), between 0.2 and 0.35 for a pair within 15%.
C8_MergedUnc ==
    merged # None /\ BothPresent =>
        /\ 100 * Max(MergeA, MergeB) * merged[1].unc[1]
             = merged[1].unc[2]
                 * Min(95 * Max(MergeA, MergeB),
                       20 * Max(MergeA, MergeB) + 100 * Abs(MergeA - MergeB))
        /\ (~Within15 => QLt(Q(35, 100), merged[1].unc))
        /\ (10 * Abs(MergeA - MergeB) >= 3 * Max(MergeA, MergeB)
              => QLe(Q(5, 10), merged[1].unc))
        /\ (Within15 => QLe(Q(2, 10), merged[1].unc) /\ QLe(merged[1].unc, Q(35, 100)))

\* 100 vs 400 has been merged: uncertainty 0.2 + 0.75 = 0.95
C8_Witness ==
    /\ merged # None
    /\ MergeA = 100 /\ MergeB = 400
    /\ merged[1].unc = Q(95, 100)

-----------------------------------------------------------------------------
(* Heart-rate energy estimator *)

\* a sample is [t, hr]: t is a time in ms or NoDate (not a Date), hr a number
\* or NaN
NoDate == -1

mean(arr) ==
    LET RECURSIVE Sum(_)
        Sum(k) == IF k = 0 THEN I(0) ELSE QAdd(Sum(k - 1), arr[k])
    IN  IF Len(arr) = 0 THEN I(0) ELSE QDiv(Sum(Len(arr)), I(Len(arr)))

keytelKcalPerMinMale(hr, weightKg, age) ==
    LET kjMin == QAdd(QAdd(Q(-550969, 10000), QMul(Q(6309, 10000), hr)),
                      QAdd(QMul(Q(1988, 10000), weightKg), QMul(Q(2017, 10000), age)))
        kcalMin == QDiv(kjMin, Q(4184, 1000))
    IN  QMax(I(0), kcalMin)

keytelKcalPerMinFemale(hr, weightKg, age) ==
    LET kjMin == QAdd(QAdd(Q(-204022, 10000), QMul(Q(4472, 10000), hr)),
                      QAdd(QMul(Q(-1263, 10000), weightKg), QMul(Q(74, 1000), age)))
        kcalMin == QDiv(kjMin, Q(4184, 1000))
    IN  QMax(I(0), kcalMin)

kcalPerMin(sex, hr, weightKg, age) ==
    IF sex = "female" THEN keytelKcalPerMinFemale(hr, weightKg, age)
    ELSE keytelKcalPerMinMale(hr, weightKg, age)

\* !x for a number x: NaN and 0 are falsy
Falsy(x) == x = NaN \/ x[1] = 0

\* Array.prototype.filter
RECURSIVE FilterValid(_)
FilterValid(xs) ==
    IF xs = <<>> THEN <<>>
    ELSE LET x == Head(xs)
             rest == FilterValid(Tail(xs))
         IN  IF x.t # NoDate /\ x.hr # NaN THEN <<x>> \o rest ELSE rest

\* Array.prototype.sort((a, b) => a.t - b.t): stable, ascending in t
RECURSIVE InsertByT(_, _)
InsertByT(sorted, x) ==
    IF sorted = <<>> THEN <<x>>
    ELSE IF x.t < Head(sorted).t THEN <<x>> \o sorted
    ELSE <<Head(sorted)>> \o InsertByT(Tail(sorted), x)

RECURSIVE SortByT(_)
SortByT(xs) ==
    IF xs = <<>> THEN <<>>
    ELSE InsertByT(SortByT(SubSeq(xs, 1, Len(xs) - 1)), xs[Len(xs)])

\* the gap test of the loop with the dropout threshold left out
gapAccepted_noThreshold(dtMin) == QLt(I(0), dtMin)

\* the negation of: !Number.isFinite(dtMin) || dtMin <= 0 || dtMin > 10
gapAccepted(dtMin) == QLt(I(0), dtMin) /\ QLe(dtMin, I(10))

\* the loop with hrs.push(hr) moved before the gap test
RECURSIVE Integrate_pushBeforeTest(_, _, _, _)
Integrate_pushBeforeTest(sorted, i, acc, pr) ==
    IF i > Len(sorted) - 1 THEN acc
    ELSE LET a == sorted[i]
             b == sorted[i + 1]
             dtMin == Q(b.t - a.t, 60000)
             kcalMin == kcalPerMin(pr.sex, a.hr, pr.weightKg, pr.age)
             pushed == [acc EXCEPT !.hrs = Append(acc.hrs, a.hr)]
         IN  IF ~gapAccepted(dtMin) THEN Integrate_pushBeforeTest(sorted, i + 1, pushed, pr)
             ELSE Integrate_pushBeforeTest(sorted, i + 1,
                            [kcal |-> QAdd(acc.kcal, QMul(kcalMin, dtMin)),
                             totalMin |-> QAdd(acc.totalMin, dtMin),
                             hrs |-> pushed.hrs],
                            pr)

\* the loop over adjacent pairs, from pair i on; acc is [kcal, totalMin, hrs]
RECURSIVE Integrate(_, _, _, _)
Integrate(sorted, i, acc, pr) ==
    IF i > Len(sorted) - 1 THEN acc
    ELSE LET a == sorted[i]
             b == sorted[i + 1]
             dtMin == Q(b.t - a.t, 60000)
             kcalMin == kcalPerMin(pr.sex, a.hr, pr.weightKg, pr.age)
         IN  IF ~gapAccepted(dtMin) THEN Integrate(sorted, i + 1, acc, pr)
             ELSE Integrate(sorted, i + 1,
                            [kcal |-> QAdd(acc.kcal, QMul(kcalMin, dtMin)),
                             totalMin |-> QAdd(acc.totalMin, dtMin),
                             hrs |-> Append(acc.hrs, a.hr)],
                            pr)

\* pr: [sex, weightKg, age, calFactor]
estimateWorkoutKcalFromSeries(pr, xs) ==
    LET zero == [kcal |-> 0, minutes |-> 0, hrAvg |-> 0]
        sorted == SortByT(FilterValid(xs))
        acc == Integrate(sorted, 1, [kcal |-> I(0), totalMin |-> I(0), hrs |-> <<>>], pr)
        calFactor == IF Falsy(pr.calFactor) THEN I(1) ELSE pr.calFactor
    IN  IF Len(xs) < 2 \/ Falsy(pr.weightKg) \/ Falsy(pr.age) THEN zero
        ELSE IF Len(sorted) < 2 THEN zero
        ELSE [kcal |-> Max(0, Round(QMul(acc.kcal, calFactor))),
              minutes |-> Round(acc.totalMin),
              hrAvg |-> IF Len(acc.hrs) > 0 THEN Round(mean(acc.hrs)) ELSE 0]

MaxSamples == 3
TimeStep == 30000

\* sample times: 0, 0.5, 10, 10.5 and 30.5 minutes
TimeInputs == {k * TimeStep : k \in {0, 1, 20, 21, 61}}
HrInputs == {I(40), I(150)}
SampleInputs ==
    [t : TimeInputs, hr : HrInputs]
        \cup {[t |-> NoDate, hr |-> I(150)], [t |-> 0, hr |-> NaN]}
ProfileInputs ==
    { [sex |-> "male", weightKg |-> I(70), age |-> I(30), calFactor |-> I(1)],
      [sex |-> "female", weightKg |-> I(60), age |-> I(25), calFactor |-> Q(13, 10)],
      [sex |-> "male", weightKg |-> I(0), age |-> I(30), calFactor |-> NaN] }

SeqsUpTo(S, n) == UNION {[1..k -> S] : k \in 0..n}

InitWorkout ==
    /\ series \in {Some(xs) : xs \in SeqsUpTo(SampleInputs, MaxSamples)}
    /\ profile \in {Some(pr) : pr \in ProfileInputs}
    /\ workout = None
    /\ NoRange /\ NoMerge /\ NoText /\ NoLater

CallEstimateWorkoutKcalFromSeries ==
    /\ series # None /\ workout = None
    /\ workout' = Some(estimateWorkoutKcalFromSeries(profile[1], series[1]))
    /\ UNCHANGED <<rangeArgs, range, readback, mergeArgs, merged, series,
                   profile, text, est, laterVars>>

NextWorkout == CallEstimateWorkoutKcalFromSeries

SpecWorkout == InitWorkout /\ [][NextWorkout]_vars

\* the times of the samples the estimator keeps
ValidTimes ==
    {series[1][k].t : k \in {j \in 1..Len(series[1]) :
                               series[1][j].t # NoDate /\ series[1][j].hr # NaN}}
\* two sample times with no sample time between them
Consecutive(s1, s2) ==
    /\ s1 \in ValidTimes /\ s2 \in ValidTimes /\ s1 < s2
    /\ ~\E s \in ValidTimes : s1 < s /\ s < s2
\* the ms covered by the gaps of at most 10 minutes (each start time once)
AcceptedMs ==
    LET starts == {s1 \in ValidTimes :
                     \E s2 \in ValidTimes : Consecutive(s1, s2) /\ s2 - s1 <= 600000}
        RECURSIVE Total(_)
        Total(S) == IF S = {} THEN 0
                    ELSE LET s1 == CHOOSE y \in S : TRUE
                             s2 == CHOOSE y \in ValidTimes : Consecutive(s1, y)
                         IN  (s2 - s1) + Total(S \ {s1})
    IN  Total(starts)
SetMax(S) == CHOOSE x \in S : \A y \in S : y <= x
SetMin(S) == CHOOSE x \in S : \A y \in S : x <= y
\* the estimator got past its early returns
Integrated ==
    /\ workout # None
    /\ Len(series[1]) >= 2 /\ ~Falsy(profile[1].weightKg) /\ ~Falsy(profile[1].age)
    /\ Cardinality({j \in 1..Len(series[1]) :
                      series[1][j].t # NoDate /\ series[1][j].hr # NaN}) >= 2
\* the highest per-minute rate of any sample
MaxRate ==
    LET rates == {kcalPerMin(profile[1].sex, series[1][j].hr, profile[1].weightKg,
                             profile[1].age) :
                    j \in {k \in 1..Len(series[1]) : series[1][k].hr # NaN}}
    IN  CHOOSE r \in rates : \A r2 \in rates : QLe(r2, r)

\* C6: gaps that are <= 0 or > 10 minutes add neither time nor calories: the
\* returned minutes is the rounded sum of the gaps of at most 10 minutes
\* between consecutive sample times, the calories do not exceed what the
\* highest rate gives over those minutes alone, and a series with a 20-minute
\* gap returns fewer minutes than its span from first to last sample.
C6_GapsSkipped ==
    Integrated =>
        /\ workout[1].minutes = Round(Q(AcceptedMs, 60000))
        /\ workout[1].kcal
             <= Round(QMul(QMul(MaxRate, Q(AcceptedMs, 60000)),
                           IF Falsy(profile[1].calFactor) THEN I(1)
                           ELSE profile[1].calFactor))
        /\ ((\E s1, s2 \in ValidTimes : Consecutive(s1, s2) /\ s2 - s1 = 20 * 60000)
              => workout[1].minutes * 60000 < SetMax(ValidTimes) - SetMin(ValidTimes))

\* a series with a 10-minute gap and then a 20-minute gap was integrated: 10
\* minutes and their calories are returned
C6_Witness ==
    /\ Integrated
    /\ ValidTimes = {TimeStep, 21 * TimeStep, 61 * TimeStep}
    /\ workout[1].minutes = 10
    /\ workout[1].kcal > 0

-----------------------------------------------------------------------------
(* Text: characters and the regular expressions of the food-text estimator *)

Digits == <<"0", "1", "2", "3", "4", "5", "6", "7", "8", "9">>
UpperCase == <<"A", "B", "C", "D", "E", "F", "G", "H", "I", "J", "K", "L", "M",
               "N", "O", "P", "Q", "R", "S", "T", "U", "V", "W", "X", "Y", "Z">>
LowerCase == <<"a", "b", "c", "d", "e", "f", "g", "h", "i", "j", "k", "l", "m",
               "n", "o", "p", "q", "r", "s", "t", "u", "v", "w", "x", "y", "z">>

Range(f) == {f[x] : x \in DOMAIN f}

IsDigit(c) == c \in Range(Digits)
DigitVal(c) == (CHOOSE k \in 1..10 : Digits[k] = c) - 1
\* \s
IsSpace(c) == c = " "
\* \w: an ASCII letter, a digit or the underscore; no Chinese character is
IsWordChar(c) == c \in Range(Digits) \cup Range(UpperCase) \cup Range(LowerCase) \cup {"_"}

\* String.prototype.toLowerCase
toLowerCase(t) ==
    [k \in 1..Len(t) |->
        IF t[k] \in Range(UpperCase)
        THEN LowerCase[CHOOSE j \in 1..26 : UpperCase[j] = t[k]]
        ELSE t[k]]

\* String.prototype.trim() leaves nothing
IsBlank(t) == \A k \in 1..Len(t) : IsSpace(t[k])

\* the string w occurs in t at position p
At(t, p, w) ==
    /\ p >= 1 /\ p + Len(w) - 1 <= Len(t)
    /\ \A k \in 1..Len(w) : t[p + k - 1] = w[k]

\* String.prototype.includes
includes(t, w) == \E p \in 1..(Len(t) - Len(w) + 1) : At(t, p, w)

\* the position after the digits that start at p (p when there is none)
RECURSIVE DigitsEnd(_, _)
DigitsEnd(t, p) ==
    IF p <= Len(t) /\ IsDigit(t[p]) THEN DigitsEnd(t, p + 1) ELSE p

\* \s* from p: the position after the white space
RECURSIVE SpacesEnd(_, _)
SpacesEnd(t, p) ==
    IF p <= Len(t) /\ IsSpace(t[p]) THEN SpacesEnd(t, p + 1) ELSE p

\* \d+(?:\.\d+)? from p: the position after the numeral, p when none starts
\* at p.  Every pattern below continues with \s* and a unit, so only the
\* longest numeral can be followed by a match.
NumberEnd(t, p) ==
    LET e == DigitsEnd(t, p)
    IN  IF e = p THEN p
        ELSE IF e + 1 <= Len(t) /\ t[e] = "." /\ IsDigit(t[e + 1])
             THEN DigitsEnd(t, e + 1)
             ELSE e

\* the value of the digits t[p..e-1]
RECURSIVE DigitsValue(_, _, _)
DigitsValue(t, p, e) ==
    IF e <= p THEN 0 ELSE 10 * DigitsValue(t, p, e - 1) + DigitVal(t[e - 1])

RECURSIVE Pow10(_)
Pow10(k) == IF k = 0 THEN 1 ELSE 10 * Pow10(k - 1)

\* parseFloat / Number of the numeral t[p..e-1]
parseFloat(t, p, e) ==
    LET d == DigitsEnd(t, p)
    IN  IF d = e THEN I(DigitsValue(t, p, e))
        ELSE QAdd(I(DigitsValue(t, p, d)),
                  Q(DigitsValue(t, d + 1, e), Pow10(e - d - 1)))

\* \b at position p (between t[p-1] and t[p])
WordBoundary(t, p) ==
    LET before == p - 1 >= 1 /\ IsWordChar(t[p - 1])
        after == p <= Len(t) /\ IsWordChar(t[p])
    IN  before # after

\* a match of one of the alternatives ws (in order) at p: the position after
\* it, 0 when none matches
RECURSIVE AltEnd(_, _, _)
AltEnd(t, p, ws) ==
    IF ws = <<>> THEN 0
    ELSE IF At(t, p, Head(ws)) THEN p + Len(Head(ws))
    ELSE AltEnd(t, p, Tail(ws))

\* the least position of S, 0 when S is empty (the leftmost match of
\* String.prototype.match over the positions where the pattern matches)
FirstOf(S) == IF S = {} THEN 0 ELSE CHOOSE p \in S : \A q \in S : p <= q

\* the calorie tokens without "kcal"
KcalTokens_noKcal == << <<"qian", "ka">>, <<"ka">> >>

KcalTokens == << <<"k", "c", "a", "l">>, <<"qian", "ka">>, <<"ka">> >>

\* the alternative (kcal|qian ka|ka) followed by \b, tried in order at p
RECURSIVE KcalTokenAt(_, _, _)
KcalTokenAt(t, p, ws) ==
    IF ws = <<>> THEN FALSE
    ELSE \/ At(t, p, Head(ws)) /\ WordBoundary(t, p + Len(Head(ws)))
         \/ KcalTokenAt(t, p, Tail(ws))

\* /(\d+(?:\.\d+)?)\s*(kcal|qian ka|ka)\b/i matches at p
KcalAt(t, p) ==
    LET e == NumberEnd(t, p)
    IN  e > p /\ KcalTokenAt(t, SpacesEnd(t, e), KcalTokens)

\* t.match(/(\d+(?:\.\d+)?)\s*(kcal|...)\b/i): <<>> or <<m[1] as a number>>
matchKcal(t) ==
    LET p == FirstOf({q \in 1..Len(t) : KcalAt(t, q)})
    IN  IF p = 0 THEN None ELSE Some(parseFloat(t, p, NumberEnd(t, p)))

\* key \s* numeral \s* (one of units) matches at p: <<>> or
\* <<start of the numeral, its end, end of the unit>>
KeyNumUnitAt(t, p, key, units) ==
    LET n == SpacesEnd(t, p + Len(key))
        e == NumberEnd(t, n)
        u == AltEnd(t, SpacesEnd(t, e), units)
    IN  IF At(t, p, key) /\ e > n /\ u > 0 THEN <<n, e, u>> ELSE <<>>

\* numeral \s* (one of units) \s* key matches at p
NumUnitKeyAt(t, p, key, units) ==
    LET e == NumberEnd(t, p)
        u == AltEnd(t, SpacesEnd(t, e), units)
    IN  IF e > p /\ u > 0 /\ At(t, SpacesEnd(t, u), key) THEN <<p, e, u>> ELSE <<>>

\* t.match(rg1) || t.match(rg2) for a unit list: <<>> or <<the number>>
matchNumUnit(t, key, units) ==
    LET p1 == FirstOf({q \in 1..Len(t) : KeyNumUnitAt(t, q, key, units) # <<>>})
        p2 == FirstOf({q \in 1..Len(t) : NumUnitKeyAt(t, q, key, units) # <<>>})
    IN  IF p1 > 0
        THEN LET m == KeyNumUnitAt(t, p1, key, units) IN Some(parseFloat(t, m[1], m[2]))
        ELSE IF p2 > 0
        THEN LET m == NumUnitKeyAt(t, p2, key, units) IN Some(parseFloat(t, m[1], m[2]))
        ELSE None

\* the gram units without "g"
GramUnits_noG == << <<"ke4">> >>

GramUnits == << <<"g">>, <<"ke4">> >>
MlUnits == << <<"m", "l">>, <<"hao", "sheng1">> >>

CN_NUM ==
    [ban |-> Q(1, 2), yi |-> I(1), er |-> I(2), liang |-> I(2), san |-> I(3),
     si4 |-> I(4), wu5 |-> I(5), liu |-> I(6), qi |-> I(7), ba |-> I(8),
     jiu |-> I(9), shi |-> I(10)]

\* the number words the count patterns accept
CountWords == <<"ban", "yi", "er", "liang", "san", "si4", "wu5">>

\* units = ["wan","ge4","ke","pian","bei","bao","he","pan","shao","gen","fen4"]
CountUnits == <<"wan", "ge4", "ke", "pian", "bei", "bao", "he", "pan", "shao", "gen", "fen4">>

\* (number word | numeral) from p: the position after it, p when none
CountEnd(t, p) ==
    IF p <= Len(t) /\ t[p] \in Range(CountWords) THEN p + 1 ELSE NumberEnd(t, p)

\* parseCNOrNumber of the token t[p..e-1]
parseCNOrNumber(t, p, e) ==
    IF e = p + 1 /\ t[p] \in DOMAIN CN_NUM THEN CN_NUM[t[p]]
    ELSE parseFloat(t, p, e)

\* (count) \s* (unit) \s* key matches at p: <<>> or <<p, end of count, unit>>
CountUnitKeyAt(t, p, key) ==
    LET e == CountEnd(t, p)
        u == SpacesEnd(t, e)
    IN  IF e > p /\ u <= Len(t) /\ t[u] \in Range(CountUnits)
           /\ At(t, SpacesEnd(t, u + 1), key)
        THEN <<p, e, t[u]>> ELSE <<>>

\* key \s* (count) \s* (unit) matches at p
KeyCountUnitAt(t, p, key) ==
    LET n == SpacesEnd(t, p + Len(key))
        e == CountEnd(t, n)
        u == SpacesEnd(t, e)
    IN  IF At(t, p, key) /\ e > n /\ u <= Len(t) /\ t[u] \in Range(CountUnits)
        THEN <<n, e, t[u]>> ELSE <<>>

\* t.match(rn1) || t.match(rn2): <<>> or <<[count, unit]>>
matchCount(t, key) ==
    LET p1 == FirstOf({q \in 1..Len(t) : CountUnitKeyAt(t, q, key) # <<>>})
        p2 == FirstOf({q \in 1..Len(t) : KeyCountUnitAt(t, q, key) # <<>>})
        m == IF p1 > 0 THEN CountUnitKeyAt(t, p1, key)
             ELSE IF p2 > 0 THEN KeyCountUnitAt(t, p2, key)
             ELSE <<>>
    IN  IF m = <<>> THEN None
        ELSE Some([count |-> parseCNOrNumber(t, m[1], m[2]), unit |-> m[3]])

\* the quantity found for key: [explicitness, value, unit]; value is the
\* kcal, grams, ml or count and NaN for "default"
matchQuantityNear(t, key) ==
    LET k == matchKcal(t)
        g == matchNumUnit(t, key, GramUnits)
        ml == matchNumUnit(t, key, MlUnits)
        n == matchCount(t, key)
    IN  IF k # None THEN [explicitness |-> "kcal", value |-> k[1], unit |-> ""]
        ELSE IF g # None THEN [explicitness |-> "g", value |-> g[1], unit |-> ""]
        ELSE IF ml # None THEN [explicitness |-> "ml", value |-> ml[1], unit |-> ""]
        ELSE IF n # None
        THEN [explicitness |-> "count", value |-> n[1].count, unit |-> n[1].unit]
        ELSE [explicitness |-> "default", value |-> NaN, unit |-> ""]

-----------------------------------------------------------------------------
(* Food-text estimator *)

\* the reference table, in its order; a basis or default the entry does not
\* have is 0 (undefined and 0 are both falsy).  Names and keys are spelled in
\* pinyin: "mi","fan" is the rice alias, "wu5" is five, "si4" four, "ge4" the
\* unit ge, "fen4" the unit fen, "ke4" gram, "jiao3" the dumpling character,
\* "shu1" the vegetable character.
FOOD_DB ==
    <<
      [name |-> "mifan", keys |-> << <<"mi", "fan">>, <<"bai", "mi", "fan">> >>,
       per100g |-> 130, per100ml |-> 0, kcalEach |-> 0,
       defaultG |-> 180, defaultML |-> 0, defaultEach |-> 0, unit |-> "wan"],
      [name |-> "miantiao", keys |-> << <<"mian", "tiao">>, <<"mian">>, <<"la", "mian">>, <<"wu", "dong">>, <<"fen">> >>,
       per100g |-> 140, per100ml |-> 0, kcalEach |-> 0,
       defaultG |-> 260, defaultML |-> 0, defaultEach |-> 0, unit |-> "wan"],
      [name |-> "jixiong", keys |-> << <<"ji", "xiong">>, <<"ji", "xiong", "rou">> >>,
       per100g |-> 165, per100ml |-> 0, kcalEach |-> 0,
       defaultG |-> 150, defaultML |-> 0, defaultEach |-> 0, unit |-> "fen4"],
      [name |-> "jirou", keys |-> << <<"ji", "rou">>, <<"bai", "zhan", "ji">>, <<"kao", "ji">>, <<"zha", "ji">> >>,
       per100g |-> 210, per100ml |-> 0, kcalEach |-> 0,
       defaultG |-> 150, defaultML |-> 0, defaultEach |-> 0, unit |-> "fen4"],
      [name |-> "niurou", keys |-> << <<"niu", "rou">> >>,
       per100g |-> 250, per100ml |-> 0, kcalEach |-> 0,
       defaultG |-> 150, defaultML |-> 0, defaultEach |-> 0, unit |-> "fen4"],
      [name |-> "zhurou", keys |-> << <<"zhu", "rou">>, <<"wu5", "hua", "rou">> >>,
       per100g |-> 290, per100ml |-> 0, kcalEach |-> 0,
       defaultG |-> 120, defaultML |-> 0, defaultEach |-> 0, unit |-> "fen4"],
      [name |-> "yu", keys |-> << <<"yu">>, <<"san", "wen", "yu">>, <<"jin", "qiang", "yu">> >>,
       per100g |-> 200, per100ml |-> 0, kcalEach |-> 0,
       defaultG |-> 160, defaultML |-> 0, defaultEach |-> 0, unit |-> "fen4"],
      [name |-> "jidan", keys |-> << <<"ji", "dan">>, <<"ji", "dan", "geng">>, <<"dan">> >>,
       per100g |-> 0, per100ml |-> 0, kcalEach |-> 70,
       defaultG |-> 0, defaultML |-> 0, defaultEach |-> 1, unit |-> "ge4"],
      [name |-> "niunai", keys |-> << <<"niu", "nai">>, <<"nai">> >>,
       per100g |-> 0, per100ml |-> 60, kcalEach |-> 0,
       defaultG |-> 0, defaultML |-> 250, defaultEach |-> 0, unit |-> "bei"],
      [name |-> "suannai", keys |-> << <<"suan", "nai">>, <<"you", "ge">>, <<"y", "o", "g", "u", "r", "t">> >>,
       per100g |-> 90, per100ml |-> 0, kcalEach |-> 0,
       defaultG |-> 150, defaultML |-> 0, defaultEach |-> 0, unit |-> "bei"],
      [name |-> "mianbao", keys |-> << <<"mian", "bao">>, <<"tu", "si">> >>,
       per100g |-> 0, per100ml |-> 0, kcalEach |-> 80,
       defaultG |-> 0, defaultML |-> 0, defaultEach |-> 1, unit |-> "pian"],
      [name |-> "xiangjiao", keys |-> << <<"xiang", "jiao">> >>,
       per100g |-> 0, per100ml |-> 0, kcalEach |-> 105,
       defaultG |-> 0, defaultML |-> 0, defaultEach |-> 1, unit |-> "gen"],
      [name |-> "pingguo", keys |-> << <<"ping", "guo">> >>,
       per100g |-> 0, per100ml |-> 0, kcalEach |-> 95,
       defaultG |-> 0, defaultML |-> 0, defaultEach |-> 1, unit |-> "ge4"],
      [name |-> "jiaozi", keys |-> << <<"jiao3", "zi">> >>,
       per100g |-> 0, per100ml |-> 0, kcalEach |-> 40,
       defaultG |-> 0, defaultML |-> 0, defaultEach |-> 10, unit |-> "ge4"],
      [name |-> "fangbianmian", keys |-> << <<"fang", "bian", "mian">>, <<"pao", "mian">> >>,
       per100g |-> 0, per100ml |-> 0, kcalEach |-> 450,
       defaultG |-> 0, defaultML |-> 0, defaultEach |-> 1, unit |-> "bao"],
      [name |-> "shutiao", keys |-> << <<"shu", "tiao">> >>,
       per100g |-> 310, per100ml |-> 0, kcalEach |-> 0,
       defaultG |-> 120, defaultML |-> 0, defaultEach |-> 0, unit |-> "fen4"],
      [name |-> "qingcai", keys |-> << <<"qing", "cai">>, <<"shu1", "cai">>, <<"xi", "lan", "hua">>, <<"sheng", "cai">>, <<"bai", "cai">> >>,
       per100g |-> 25, per100ml |-> 0, kcalEach |-> 0,
       defaultG |-> 200, defaultML |-> 0, defaultEach |-> 0, unit |-> "fen4"]
    >>

\* the keywords of applyCookingMultiplier and its factors, in its order
CookingRules ==
    << [words |-> << <<"you2", "zha">>, <<"zha">> >>, mult |-> Q(125, 100)],
       [words |-> << <<"jian">> >>, mult |-> Q(115, 100)],
       [words |-> << <<"chao">> >>, mult |-> Q(112, 100)],
       [words |-> << <<"hong", "shao1">>, <<"jiang">>, <<"tang", "cu">> >>, mult |-> Q(110, 100)],
       [words |-> << <<"nai", "you2">>, <<"zhi", "shi4">>, <<"qi3", "si">> >>, mult |-> Q(112, 100)] >>

\* the product of the factors of the rules from k on that the text triggers
RECURSIVE MultiplierFrom(_, _, _)
MultiplierFrom(t, rules, k) ==
    IF k > Len(rules) THEN I(1)
    ELSE LET hit == \E j \in 1..Len(rules[k].words) : includes(t, rules[k].words[j])
         IN  QMul(IF hit THEN rules[k].mult ELSE I(1), MultiplierFrom(t, rules, k + 1))

applyCookingMultiplier(t, kcal) == QMul(kcal, MultiplierFrom(t, CookingRules, 1))

PortionRules ==
    << [words |-> << <<"da">> >>, mult |-> Q(120, 100)],
       [words |-> << <<"xiao">> >>, mult |-> Q(85, 100)],
       [words |-> << <<"ban">> >>, mult |-> Q(60, 100)] >>

inferPortionSize(t) == MultiplierFrom(t, PortionRules, 1)

\* the first key of the item that the text includes, <<>> when none does
RECURSIVE UsedKey(_, _, _)
UsedKey(t, keys, k) ==
    IF k > Len(keys) THEN <<>>
    ELSE IF includes(t, keys[k]) THEN keys[k]
    ELSE UsedKey(t, keys, k + 1)

\* the uncertainty of a per-each food given in grams, set to the grams tier
roughGramsU_asGrams == Q(8, 100)

\* u of the branch "each-based items with grams unknown"
roughGramsU == Q(20, 100)

\* the body of the loop for one item whose key was found: [mid, u, detail];
\* detail is [kind, value, unit], the parts of the detail string
itemEstimate(item, q, portionMult) ==
    LET none == [kind |-> "", value |-> NaN, unit |-> ""]
        v == q.value
    IN  IF q.explicitness = "kcal" /\ ~Falsy(v)
        THEN [mid |-> v, u |-> Q(5, 100),
              detail |-> [kind |-> "kcal", value |-> NaN, unit |-> ""]]
        ELSE IF q.explicitness = "g" /\ ~Falsy(v)
        THEN IF item.per100g # 0
             THEN [mid |-> QDiv(QMul(v, I(item.per100g)), I(100)), u |-> Q(8, 100),
                   detail |-> [kind |-> "g", value |-> v, unit |-> ""]]
             ELSE [mid |-> IF item.kcalEach # 0
                           THEN QMul(I(item.kcalEach), QDiv(v, I(50)))
                           ELSE I(0),
                   u |-> roughGramsU,
                   detail |-> [kind |-> "g_rough", value |-> v, unit |-> ""]]
        ELSE IF q.explicitness = "ml" /\ ~Falsy(v)
        THEN IF item.per100ml # 0
             THEN [mid |-> QDiv(QMul(v, I(item.per100ml)), I(100)), u |-> Q(8, 100),
                   detail |-> [kind |-> "ml", value |-> v, unit |-> ""]]
             ELSE [mid |-> I(0), u |-> Q(30, 100), detail |-> none]
        ELSE IF q.explicitness = "count" /\ ~Falsy(v)
        THEN LET unit == IF q.unit # "" THEN q.unit ELSE item.unit
             IN  IF item.kcalEach # 0
                 THEN [mid |-> QMul(I(item.kcalEach), v), u |-> Q(12, 100),
                       detail |-> [kind |-> "count", value |-> v, unit |-> unit]]
                 ELSE IF item.per100g # 0 /\ item.defaultG # 0
                 THEN LET g == QMul(QMul(I(item.defaultG), v), portionMult)
                      IN  [mid |-> QDiv(QMul(g, I(item.per100g)), I(100)),
                           u |-> IF unit \in {"wan", "pan", "bei"}
                                 THEN Q(22, 100) ELSE Q(18, 100),
                           detail |-> [kind |-> "count_default", value |-> v, unit |-> unit]]
                 ELSE [mid |-> I(0), u |-> Q(30, 100), detail |-> none]
        ELSE IF item.kcalEach # 0
        THEN LET each == IF item.defaultEach # 0 THEN item.defaultEach ELSE 1
             IN  [mid |-> I(item.kcalEach * each), u |-> Q(20, 100),
                  detail |-> [kind |-> "default_each", value |-> I(each), unit |-> item.unit]]
        ELSE IF item.per100g # 0 /\ item.defaultG # 0
        THEN LET g == QMul(I(item.defaultG), portionMult)
             IN  [mid |-> QDiv(QMul(g, I(item.per100g)), I(100)), u |-> Q(28, 100),
                  detail |-> [kind |-> "default_g", value |-> NaN, unit |-> item.unit]]
        ELSE IF item.per100ml # 0 /\ item.defaultML # 0
        THEN LET ml == QMul(I(item.defaultML), portionMult)
             IN  [mid |-> QDiv(QMul(ml, I(item.per100ml)), I(100)), u |-> Q(22, 100),
                  detail |-> [kind |-> "default_ml", value |-> NaN, unit |-> item.unit]]
        ELSE [mid |-> I(0), u |-> Q(30, 100), detail |-> none]

RECURSIVE MatchedFrom(_, _)

\* matched.push({ name, key, detail, ...r })
matchedEntry(item, usedKey, detail, r) ==
    [name |-> item.name, key |-> usedKey, detail |-> detail,
     low |-> r.low, high |-> r.high, mid |-> r.mid, u |-> r.u]

\* the end of the loop body for item k, given its estimate e: the entry is
\* pushed when mid > 0
pushMatched(t, k, item, usedKey, e) ==
    IF ~QLt(I(0), e.mid) THEN MatchedFrom(t, k + 1)
    ELSE <<matchedEntry(item, usedKey, e.detail,
                        boundedRange(applyCookingMultiplier(t, e.mid), e.u))>>
         \o MatchedFrom(t, k + 1)

\* the loop body for item k, given the key found for it
matchedItem(t, k, item, usedKey) ==
    IF usedKey = <<>> THEN MatchedFrom(t, k + 1)
    ELSE pushMatched(t, k, item, usedKey,
                     itemEstimate(item, matchQuantityNear(t, usedKey), inferPortionSize(t)))

\* the loop over FOOD_DB from item k on: the entries pushed to matched
MatchedFrom(t, k) ==
    IF k > Len(FOOD_DB) THEN <<>>
    ELSE matchedItem(t, k, FOOD_DB[k], UsedKey(t, FOOD_DB[k].keys, 1))

\* the reduction that keeps the first item only
SumField_first(xs, f) == IF xs = <<>> THEN 0 ELSE Head(xs)[f]

RECURSIVE SumField(_, _)
SumField(xs, f) == IF xs = <<>> THEN 0 ELSE Head(xs)[f] + SumField(Tail(xs), f)

\* the first numeral of the text: text.match(/(\d+(?:\.\d+)?)/)
matchNumber(t) ==
    LET p == FirstOf({q \in 1..Len(t) : IsDigit(t[q])})
    IN  IF p = 0 THEN None ELSE Some(parseFloat(t, p, NumberEnd(t, p)))

\* the result for matched foods, given the sums and uTot
foodsResultOf(matched, low, high, uTot) ==
    [ok |-> TRUE,
     range |-> [low |-> low, high |-> high,
                mid |-> Round(Q(low + high, 2)), u |-> uTot],
     uncSuggested |-> ToFixed(uTot, 100),
     explanation |-> [kind |-> "foods", parts |-> matched],
     followups |-> "narrow_the_range"]

\* the result for matched foods, given the sums of their lows and highs
foodsResult(matched, low, high) ==
    foodsResultOf(matched, low, high,
                  clamp(QDiv(QDiv(I(high - low), QMax(I(1), Q(high + low, 2))), I(2)),
                        Q(10, 100), Q(45, 100)))

\* the result, given the kcal match, the matched foods and the first numeral
estimateOf(kcalDirect, matched, num) ==
    IF kcalDirect # None
    THEN [ok |-> TRUE, range |-> boundedRange(kcalDirect[1], Q(5, 100)),
          uncSuggested |-> Q(10, 100),
          explanation |-> [kind |-> "direct", parts |-> <<>>],
          followups |-> ""]
    ELSE IF matched = <<>>
    THEN IF num # None
         THEN [ok |-> TRUE, range |-> boundedRange(num[1], Q(35, 100)),
               uncSuggested |-> Q(35, 100),
               explanation |-> [kind |-> "guess", parts |-> <<>>],
               followups |-> "how_to_write"]
         ELSE [ok |-> FALSE, reason |-> "no_match"]
    ELSE foodsResult(matched, SumField(matched, "low"), SumField(matched, "high"))

\* the result for the lower-cased text
estimateOfText(t) ==
    IF IsBlank(t) THEN [ok |-> FALSE, reason |-> "empty"]
    ELSE estimateOf(matchKcal(t), MatchedFrom(t, 1), matchNumber(t))

\* the result: [ok, reason] or [ok, range, uncSuggested, explanation,
\* followups]; explanation is [kind, parts] for the sentence and the items it
\* lists, followups the name of the hint
estimateKcalRangeFromText(textRaw) == estimateOfText(toLowerCase(textRaw))

-----------------------------------------------------------------------------
(* The texts given to the estimator *)

MaxGrams == 160

\* the decimal digits of n
RECURSIVE DigitsOf(_)
DigitsOf(n) ==
    IF n < 10 THEN <<Digits[n + 1]>> ELSE DigitsOf(n \div 10) \o <<Digits[(n % 10) + 1]>>

\* every alias of every entry of FOOD_DB
Aliases == UNION {Range(FOOD_DB[k].keys) : k \in 1..Len(FOOD_DB)}

\* size qualifiers and cooking-method keywords (and none)
Modifiers ==
    { <<>>, <<"da">>, <<"xiao">>, <<"ban">>, <<"zha">>, <<"jian">>,
      <<"hong", "shao1">>, <<"da">> \o <<"zhi", "shi4">> }

\* quantities: grams, millilitres, counts with units, calories, bare numbers
Quantities ==
    { <<>>,
      <<"1", "5", "0", "g">>, <<"1", "5", "0", "ke4">>, <<" ", "8", "0", " ", "g", " ">>,
      <<"0", "g">>, <<"2", "5", "0", "m", "l">>, <<"2", "5", "0", "hao", "sheng1">>,
      <<"2", "ge4">>, <<"ban", "wan">>, <<"yi", "wan">>, <<"1", ".", "5", "bei">>,
      <<"3", "pian">>, <<"liang", "fen4">>, <<"2", "0", "0">>,
      <<"2", "0", "0", "k", "c", "a", "l">>, <<" ", "3", "0", "0", " ", "K", "C", "A", "L", " ">>,
      <<"1", "2", ".", "5", "k", "c", "a", "l">>,
      <<"2", "0", "0", "qian", "ka">>, <<"2", "0", "0", "ka">> }

\* a modifier, an alias and a quantity before or after it
Phrases ==
    {m \o a \o q : m \in Modifiers, a \in Aliases, q \in Quantities}
        \cup {m \o q \o a : m \in Modifiers, a \in Aliases, q \in Quantities}

\* two aliases separated by a blank
Pairs == {a \o <<" ">> \o b : a \in Aliases, b \in Aliases}

\* an alias followed by a number of grams
GramTexts == {a \o DigitsOf(g) \o <<"g">> : a \in Aliases, g \in 0..MaxGrams}

\* a quantity on each side of an alias
TwoQuantities ==
    {q1 \o a \o q2 : q1 \in Quantities, q2 \in Quantities,
                     a \in {<<"mi", "fan">>, <<"dan">>, <<"niu", "nai">>}}

\* texts that name no food
NoFoodTexts ==
    { <<>>, <<" ">>, <<" ", " ">>, <<"a", "b", "c">>, <<"yi", "wan">>, <<"da">>,
      <<"2", "0", "0">>, <<"a", " ", "1", "2", ".", "5", " ", "3">>,
      <<"k", "c", "a", "l">>, <<"2", "0", "0", "k", "c", "a", "l", "s">>,
      <<"2", "0", "0", "ka", "x">>, <<"1", "0", "0", "k", "c", "a", "l", " ", "2", "0", "0", "k", "c", "a", "l">> }

TextInputs == Phrases \cup Pairs \cup GramTexts \cup TwoQuantities \cup NoFoodTexts

InitText ==
    /\ text \in {Some(t) : t \in TextInputs}
    /\ est = None
    /\ NoRange /\ NoMerge /\ NoWorkout /\ NoLater

CallEstimateKcalRangeFromText ==
    /\ text # None /\ est = None
    /\ est' = Some(estimateKcalRangeFromText(text[1]))
    /\ UNCHANGED <<rangeArgs, range, readback, mergeArgs, merged, series,
                   profile, workout, text, laterVars>>

NextText == CallEstimateKcalRangeFromText

SpecText == InitText /\ [][NextText]_vars

-----------------------------------------------------------------------------
(* Food-text estimator: properties *)

Estimated == est # None
T == text[1]
E == est[1]
\* the result for another text
ResultFor(t) == estimateKcalRangeFromText(t)

\* the position before p that the digits ending at p - 1 start at
RECURSIVE DigitsStart(_, _)
DigitsStart(t, p) == IF p > 1 /\ IsDigit(t[p - 1]) THEN DigitsStart(t, p - 1) ELSE p

\* the start of the blanks that end at p - 1
RECURSIVE SpacesStart(_, _)
SpacesStart(t, p) == IF p > 1 /\ IsSpace(t[p - 1]) THEN SpacesStart(t, p - 1) ELSE p

\* "kcal" (in any case) stands at p as a token and a number ends before it
KcalAfterNumber(t, p) ==
    LET lt == toLowerCase(t)
        e == SpacesStart(lt, p)
    IN  /\ At(lt, p, <<"k", "c", "a", "l">>)
        /\ (p + 4 > Len(lt) \/ ~IsWordChar(lt[p + 4]))
        /\ DigitsStart(lt, e) < e

\* the number N before the first such "kcal": digits, or digits "." digits
KcalNumber(t) ==
    LET lt == toLowerCase(t)
        S == {p \in 1..Len(lt) : KcalAfterNumber(lt, p)}
        p == CHOOSE x \in S : \A y \in S : x <= y
        e == SpacesStart(lt, p)
        f == DigitsStart(lt, e)
        i == DigitsStart(lt, f - 1)
    IN  IF f > 2 /\ lt[f - 1] = "." /\ i < f - 1
        THEN QAdd(I(DigitsValue(lt, i, f - 1)), Q(DigitsValue(lt, f, e), Pow10(e - f)))
        ELSE I(DigitsValue(lt, f, e))

HasKcalNumber(t) == \E p \in 1..Len(t) : KcalAfterNumber(t, p)

\* C1: a text with a number N followed by "kcal" gives ok, mid = round(N) and
\* the range of the 0.05 tier around N, whatever aliases, quantities,
\* qualifiers and cooking keywords it holds.
C1_ExplicitKcal ==
    Estimated /\ HasKcalNumber(T) =>
        LET N == KcalNumber(T)
            lo == Round(QMul(N, Q(95, 100)))
        IN  /\ E.ok
            /\ E.range.mid = Round(N)
            /\ E.range.u = Q(5, 100)
            /\ E.range.low = lo
            /\ E.range.high = Max(lo, Round(QMul(N, Q(105, 100))))
            /\ E.explanation.parts = <<>>

\* "zha ji 200kcal" (fried chicken, 200 kcal) was estimated: 190..210, mid 200
C1_Witness ==
    /\ Estimated
    /\ T = <<"zha", "ji", "2", "0", "0", "k", "c", "a", "l">>
    /\ E.ok /\ E.range.mid = 200 /\ E.range.low = 190 /\ E.range.high = 210

\* the entry of FOOD_DB that has the alias a
FoodOf(a) == CHOOSE k \in 1..Len(FOOD_DB) : a \in Range(FOOD_DB[k].keys)
\* the entries that have a key in the text
FoodsIn(t) == {k \in 1..Len(FOOD_DB) : \E key \in Range(FOOD_DB[k].keys) : includes(t, key)}
HasCookingKeyword(t) ==
    \E k \in 1..Len(CookingRules) : \E w \in Range(CookingRules[k].words) : includes(t, w)
\* the position of the first blank of t, 0 when it has none
FirstBlank(t) ==
    IF \E p \in 1..Len(t) : t[p] = " "
    THEN CHOOSE p \in 1..Len(t) : t[p] = " " /\ \A q \in 1..(p - 1) : t[q] # " "
    ELSE 0
PairA(t) == SubSeq(t, 1, FirstBlank(t) - 1)
PairB(t) == SubSeq(t, FirstBlank(t) + 1, Len(t))
\* the text is an alias, a blank, an alias, of two different entries
IsPairText(t) ==
    /\ FirstBlank(t) > 1
    /\ PairA(t) \in Aliases /\ PairB(t) \in Aliases
    /\ FoodOf(PairA(t)) # FoodOf(PairB(t))

\* C2 as stated: for any two distinct foods named by aliases a and b, the
\* low and high of "a b" are the sums of the lows and highs of "a" and of "b",
\* and mid is the rounded mean of the two sums.
C2_Original ==
    Estimated /\ IsPairText(T) =>
        LET ra == ResultFor(PairA(T)).range
            rb == ResultFor(PairB(T)).range
        IN  /\ E.ok
            /\ E.range.low = ra.low + rb.low
            /\ E.range.high = ra.high + rb.high
            /\ E.range.mid = Round(Q(ra.low + rb.low + ra.high + rb.high, 2))

\* the default-portion range of entry k in a text t without size qualifiers
DefaultRange(k, t) ==
    LET item == FOOD_DB[k]
        mid == IF item.kcalEach # 0 THEN I(item.kcalEach * item.defaultEach)
               ELSE IF item.per100g # 0 THEN Q(item.defaultG * item.per100g, 100)
               ELSE Q(item.defaultML * item.per100ml, 100)
        u == IF item.kcalEach # 0 THEN Q(20, 100)
             ELSE IF item.per100g # 0 THEN Q(28, 100) ELSE Q(22, 100)
    IN  boundedRange(applyCookingMultiplier(t, mid), u)

\* the sum of field f of the default-portion ranges of the entries in S
RECURSIVE SumDefault(_, _, _)
SumDefault(S, t, f) ==
    IF S = {} THEN 0
    ELSE LET k == CHOOSE y \in S : TRUE
         IN  DefaultRange(k, t)[f] + SumDefault(S \ {k}, t, f)

\* C2 amended: "a b" gives the sum of the default-portion ranges of the
\* distinct foods it matches, each under the cooking multiplier of the whole
\* text; this is low(a)+low(b) and high(a)+high(b) of the single-alias results
\* when neither alias holds a cooking keyword (zha ji does) and no food is
\* matched by both aliases (nai matches milk in both niu nai and suan nai);
\* mid is the rounded mean of the summed low and high.
C2_SumOfRanges ==
    Estimated /\ IsPairText(T) =>
        LET ra == ResultFor(PairA(T)).range
            rb == ResultFor(PairB(T)).range
        IN  /\ E.ok
            /\ Len(E.explanation.parts) = Cardinality(FoodsIn(T))
            /\ E.range.low = SumDefault(FoodsIn(T), T, "low")
            /\ E.range.high = SumDefault(FoodsIn(T), T, "high")
            /\ E.range.mid = Round(Q(E.range.low + E.range.high, 2))
            /\ (~HasCookingKeyword(T) /\ FoodsIn(PairA(T)) \cap FoodsIn(PairB(T)) = {}
                  => /\ E.range.low = ra.low + rb.low
                     /\ E.range.high = ra.high + rb.high)

\* "mi fan ji xiong" (rice, chicken breast) was estimated: two items, summed
C2_Witness ==
    /\ Estimated
    /\ T = <<"mi", "fan", " ", "ji", "xiong">>
    /\ E.ok /\ Len(E.explanation.parts) = 2
    /\ E.range.low = ResultFor(<<"mi", "fan">>).range.low
                       + ResultFor(<<"ji", "xiong">>).range.low
    /\ E.range.low > 0

\* the alias and the grams of a text "alias digits g"
GramsAlias(t) == SubSeq(t, 1, DigitsStart(t, Len(t)) - 1)
GramsValue(t) == DigitsValue(t, DigitsStart(t, Len(t)), Len(t))

\* the text is an alias of a per-100g entry followed by G > 0 grams, with no
\* cooking keyword
IsGramsText(t) ==
    /\ Len(t) >= 3 /\ t[Len(t)] = "g" /\ DigitsStart(t, Len(t)) < Len(t)
    /\ GramsAlias(t) \in Aliases
    /\ t = GramsAlias(t) \o DigitsOf(GramsValue(t)) \o <<"g">>
    /\ GramsValue(t) > 0
    /\ FOOD_DB[FoodOf(GramsAlias(t))].per100g # 0
    /\ ~HasCookingKeyword(t)

\* C3 as stated: alias, G > 0 grams, no cooking keyword, density d: mid is
\* round(G * d / 100) and the reported uncertainty (range.u, uncSuggested)
\* is 0.08.
C3_Original ==
    Estimated /\ IsGramsText(T) =>
        /\ E.ok
        /\ E.range.mid = Round(Q(GramsValue(T) * FOOD_DB[FoodOf(GramsAlias(T))].per100g, 100))
        /\ E.range.u = Q(8, 100)
        /\ E.uncSuggested = Q(8, 100)

\* the key the estimator uses for the entry of alias a ends a, so the grams
\* that follow a follow the key
KeyEnds(a) ==
    LET key == UsedKey(a, FOOD_DB[FoodOf(a)].keys, 1)
    IN  At(a, Len(a) - Len(key) + 1, key)

\* C3 amended: with G > 0 grams right after the alias and no cooking keyword,
\* the food's own uncertainty is 0.08 and range.mid is round(G * d / 100) or
\* one more; the reported range.u is the relative half-width of the rounded
\* range clamped into [0.10, 0.45] (never 0.08), uncSuggested that value to two
\* decimals; the result is ok when G * d / 100 >= 0.5.  When the entry has a
\* shorter alias inside the one written that does not end it (ji xiong in
\* ji xiong rou), the grams are not used and the result is the one of the
\* alias alone.
C3_ExplicitGrams ==
    Estimated /\ IsGramsText(T) =>
        LET a == GramsAlias(T)
            g == GramsValue(T)
            d == FOOD_DB[FoodOf(a)].per100g
            m == Round(Q(g * d, 100))
        IN  IF KeyEnds(a)
            THEN /\ (g * d >= 50 => E.ok)
                 /\ (E.ok =>
                      /\ Len(E.explanation.parts) = 1
                      /\ E.explanation.parts[1].u = Q(8, 100)
                      /\ E.range.mid \in {m, m + 1}
                      /\ QLe(Q(10, 100), E.range.u) /\ QLe(E.range.u, Q(45, 100))
                      /\ E.uncSuggested = ToFixed(E.range.u, 100))
            ELSE E = ResultFor(a)

\* "mi fan 150g" was estimated: mid 195, reported uncertainty 0.10
C3_Witness ==
    /\ Estimated
    /\ T = <<"mi", "fan", "1", "5", "0", "g">>
    /\ E.ok /\ E.range.mid = 195
    /\ E.explanation.parts[1].u = Q(8, 100)
    /\ E.range.u = Q(10, 100) /\ E.uncSuggested = Q(10, 100)

\* C9: an ok result has non-negative integers low <= mid <= high and an
\* uncertainty in [0.05, 0.60]; a result summed from matched foods has the
\* relative half-width (high - low) / max(1, (high + low) / 2) / 2 of its
\* range, clamped into [0.10, 0.45].
C9_WellFormedRange ==
    Estimated /\ E.ok =>
        LET r == E.range
            half == IF r.high + r.low >= 2 THEN Q(r.high - r.low, r.high + r.low)
                    ELSE Q(r.high - r.low, 2)
        IN  /\ r.low \in Nat /\ r.mid \in Nat /\ r.high \in Nat
            /\ r.low <= r.mid /\ r.mid <= r.high
            /\ QLe(Q(5, 100), r.u) /\ QLe(r.u, Q(60, 100))
            /\ (E.explanation.kind = "foods"
                  => r.u = QMax(Q(10, 100), QMin(Q(45, 100), half)))

\* a result summed from two foods whose uncertainty is strictly inside
\* [0.10, 0.45]
C9_Witness ==
    /\ Estimated /\ E.ok
    /\ Len(E.explanation.parts) = 2
    /\ QLt(Q(10, 100), E.range.u) /\ QLt(E.range.u, Q(45, 100))
    /\ E.range.low < E.range.mid /\ E.range.mid < E.range.high

DefaultKinds == {"default_each", "default_g", "default_ml"}
CountKinds == {"count", "count_default"}

\* C10 as stated: the uncertainty of each matched food is in the tier of its
\* quantity source: grams or millilitres 0.08 (per-each foods given in grams
\* too), count with unit 0.12..0.22, default portion 0.20..0.28; an explicit
\* kcal gives 0.05.
C10_Original ==
    Estimated /\ E.ok =>
        /\ (E.explanation.kind = "direct" => E.range.u = Q(5, 100))
        /\ \A k \in 1..Len(E.explanation.parts) :
              LET x == E.explanation.parts[k]
              IN  /\ (x.detail.kind \in {"g", "g_rough", "ml"} => x.u = Q(8, 100))
                  /\ (x.detail.kind \in CountKinds
                        => QLe(Q(12, 100), x.u) /\ QLe(x.u, Q(22, 100)))
                  /\ (x.detail.kind \in DefaultKinds
                        => QLe(Q(20, 100), x.u) /\ QLe(x.u, Q(28, 100)))

\* C10 amended: explicit kcal 0.05; grams on a per-100g food and millilitres
\* on a per-100ml food 0.08; grams on a per-each food, converted at 50 g per
\* unit, 0.20; count with unit 0.12 for a per-each food and, for a per-100g
\* food, 0.22 with bowl, plate or cup and 0.18 with any other unit; default
\* portion 0.20 (per-each), 0.22 (per-100ml) or 0.28 (per-100g).
C10_UncertaintyTiers ==
    Estimated /\ E.ok =>
        /\ (E.explanation.kind = "direct" => E.range.u = Q(5, 100))
        /\ \A k \in 1..Len(E.explanation.parts) :
              LET x == E.explanation.parts[k]
                  item == CHOOSE f \in Range(FOOD_DB) : f.name = x.name
                  kind == x.detail.kind
              IN  /\ kind \in {"g", "g_rough", "ml"} \cup CountKinds \cup DefaultKinds
                  /\ (kind = "g" => item.per100g # 0 /\ x.u = Q(8, 100))
                  /\ (kind = "ml" => item.per100ml # 0 /\ x.u = Q(8, 100))
                  /\ (kind = "g_rough" => item.kcalEach # 0 /\ x.u = Q(20, 100))
                  /\ (kind = "count" => item.kcalEach # 0 /\ x.u = Q(12, 100))
                  /\ (kind = "count_default"
                        => x.u = IF x.detail.unit \in {"wan", "pan", "bei"}
                                 THEN Q(22, 100) ELSE Q(18, 100))
                  /\ (kind = "default_each" => x.u = Q(20, 100))
                  /\ (kind = "default_ml" => x.u = Q(22, 100))
                  /\ (kind = "default_g" => x.u = Q(28, 100))

\* "ji dan 150g" (egg, a per-each food, in grams) was estimated with 0.20
C10_Witness ==
    /\ Estimated /\ E.ok
    /\ T = <<"ji", "dan", "1", "5", "0", "g">>
    /\ Len(E.explanation.parts) = 1
    /\ E.explanation.parts[1].detail.kind = "g_rough"
    /\ E.explanation.parts[1].u = Q(20, 100)

\* the factor of the size qualifiers in the text: da 1.20, xiao 0.85, ban 0.60
PortionFactor(t) ==
    QMul(IF includes(t, <<"da">>) THEN Q(120, 100) ELSE I(1),
         QMul(IF includes(t, <<"xiao">>) THEN Q(85, 100) ELSE I(1),
              IF includes(t, <<"ban">>) THEN Q(60, 100) ELSE I(1)))

\* the midpoint of a matched food from its quantity alone, before the size
\* qualifier and the cooking multiplier
UnscaledMid(item, d) ==
    IF d.kind = "g" THEN Q(d.value[1] * item.per100g, d.value[2] * 100)
    ELSE IF d.kind = "g_rough" THEN Q(d.value[1] * item.kcalEach, d.value[2] * 50)
    ELSE IF d.kind = "ml" THEN Q(d.value[1] * item.per100ml, d.value[2] * 100)
    ELSE IF d.kind = "count" THEN Q(d.value[1] * item.kcalEach, d.value[2])
    ELSE IF d.kind = "count_default"
    THEN Q(d.value[1] * item.defaultG * item.per100g, d.value[2] * 100)
    ELSE IF d.kind = "default_each" THEN I(item.kcalEach * item.defaultEach)
    ELSE IF d.kind = "default_g" THEN Q(item.defaultG * item.per100g, 100)
    ELSE Q(item.defaultML * item.per100ml, 100)

\* C11: the size qualifier scales the midpoint of a matched food exactly when
\* its quantity is the default portion (grams, millilitres or per-each), and
\* leaves the midpoint of a food with an explicit quantity (grams,
\* millilitres, count with unit) unchanged.
C11_PortionQualifier ==
    Estimated /\ E.ok =>
        \A k \in 1..Len(E.explanation.parts) :
            LET x == E.explanation.parts[k]
                item == CHOOSE f \in Range(FOOD_DB) : f.name = x.name
                scale == IF x.detail.kind \in DefaultKinds THEN PortionFactor(T) ELSE I(1)
            IN  x.mid = Round(applyCookingMultiplier(T, QMul(UnscaledMid(item, x.detail), scale)))

\* counts with a unit word, as written and as numbers
CountPhrases ==
    { [q |-> <<"2", "ge4">>, c |-> I(2)], [q |-> <<"yi", "wan">>, c |-> I(1)],
      [q |-> <<"1", ".", "5", "bei">>, c |-> Q(3, 2)], [q |-> <<"3", "pian">>, c |-> I(3)],
      [q |-> <<"liang", "fen4">>, c |-> I(2)] }

\* the aliases that are the key the estimator uses when they are written
OwnKeyAliases == {a \in Aliases : UsedKey(a, FOOD_DB[FoodOf(a)].keys, 1) = a}

\* texts "count unit alias" and "alias count unit", after an optional cooking
\* keyword, without size qualifier
CountTexts ==
    LET ms == {m \in Modifiers : PortionFactor(m) = I(1)}
    IN  {[text |-> m \o a \o p.q, a |-> a, c |-> p.c] :
            m \in ms, a \in OwnKeyAliases, p \in CountPhrases}
        \cup {[text |-> m \o p.q \o a, a |-> a, c |-> p.c] :
            m \in ms, a \in OwnKeyAliases, p \in CountPhrases}

\* C12: a count c with a unit word next to the alias of a food gives a
\* contribution with midpoint (before the cooking multiplier) c * kcalEach
\* for a per-each food and otherwise c * default portion * density / 100;
\* the food is never dropped.
C12_CountWithUnit ==
    Estimated =>
        \A r \in CountTexts :
            r.text = T =>
                LET item == FOOD_DB[FoodOf(r.a)]
                    portion == IF item.per100g # 0 THEN item.defaultG * item.per100g
                               ELSE item.defaultML * item.per100ml
                    mid == IF item.kcalEach # 0 THEN QMul(r.c, I(item.kcalEach))
                           ELSE QMul(r.c, Q(portion, 100))
                IN  /\ E.ok
                    /\ \E k \in 1..Len(E.explanation.parts) :
                          /\ E.explanation.parts[k].name = item.name
                          /\ E.explanation.parts[k].mid = Round(applyCookingMultiplier(T, mid))

HasAlias(t) == FoodsIn(toLowerCase(t)) # {}
HasNumber(t) == \E p \in 1..Len(t) : IsDigit(t[p])
IsGuess(e) == e.ok /\ e.explanation.kind = "guess"
IsDirect(e) == e.ok /\ e.explanation.kind = "direct"

\* C13: apart from the explicit-kcal case, the result is the bare-number
\* guess (first number, uncertainty 0.35) exactly when no alias of a food
\* occurs in the text and the text holds a number; with an alias in the text
\* a number is never taken as a calorie guess; with neither alias nor number
\* the result is ok:false.
C13_BareNumberFallback ==
    Estimated /\ ~IsDirect(E) =>
        /\ IsGuess(E) <=> (~HasAlias(T) /\ HasNumber(T))
        /\ (IsGuess(E) => E.range.u = Q(35, 100) /\ E.uncSuggested = Q(35, 100))
        /\ (~HasAlias(T) /\ ~HasNumber(T) => ~E.ok)

-----------------------------------------------------------------------------
(* Heart-rate energy estimator: the average heart rate *)

\* the indexes of the samples the estimator keeps
ValidIndexes ==
    {j \in 1..Len(series[1]) : series[1][j].t # NoDate /\ series[1][j].hr # NaN}
\* the sample times that start a gap of at most 10 minutes
AcceptedStarts ==
    {s1 \in ValidTimes : \E s2 \in ValidTimes : Consecutive(s1, s2) /\ s2 - s1 <= 600000}
\* the heart rate used for the gap that starts at s1: the one of the last
\* sample given with that time (the sort keeps the given order of equal times)
HrAt(s1) ==
    LET js == {j \in ValidIndexes : series[1][j].t = s1}
    IN  series[1][CHOOSE j \in js : \A k \in js : k <= j].hr
RECURSIVE SumHr(_)
SumHr(S) ==
    IF S = {} THEN I(0)
    ELSE LET s1 == CHOOSE y \in S : TRUE IN QAdd(HrAt(s1), SumHr(S \ {s1}))

\* C14: the returned hrAvg is the rounded mean of the heart rates of the
\* earlier samples of the accepted adjacent pairs, one per accepted pair, and
\* 0 when no pair is accepted.
C14_AvgHrOfAccepted ==
    Integrated =>
        workout[1].hrAvg =
            IF AcceptedStarts = {} THEN 0
            ELSE Round(QDiv(SumHr(AcceptedStarts), I(Cardinality(AcceptedStarts))))

\* samples at 0 min (40 bpm), 0.5 min (150 bpm) and 30.5 min (40 bpm): only
\* the first pair is accepted and hrAvg is 40
C14_Witness ==
    /\ Integrated
    /\ series[1] = << [t |-> 0, hr |-> I(40)], [t |-> TimeStep, hr |-> I(150)],
                      [t |-> 61 * TimeStep, hr |-> I(40)] >>
    /\ workout[1].hrAvg = 40
    /\ workout[1].minutes = 1

-----------------------------------------------------------------------------
(* Heart-rate energy estimator: the point estimate *)

\* args: [sex, hrAvg, minutes, weightKg, age, calFactor]
estimateWorkoutKcalFromAvgHR(args) ==
    IF Falsy(args.hrAvg) \/ Falsy(args.minutes) \/ Falsy(args.weightKg) \/ Falsy(args.age)
    THEN 0
    ELSE Max(0, Round(QMul(QMul(kcalPerMin(args.sex, args.hrAvg, args.weightKg, args.age),
                                args.minutes),
                           IF Falsy(args.calFactor) THEN I(1) ELSE args.calFactor)))

AvgInputs ==
    [sex : {"male", "female"},
     hrAvg : {I(0), I(40), I(60), I(100), I(150), I(190)},
     minutes : {I(0), I(30), I(90)},
     weightKg : {I(0), I(50), I(70), I(110)},
     age : {NaN, I(25), I(60)},
     calFactor : {NaN, I(1), Q(13, 10)}]

InitAvg ==
    /\ avgArgs \in {Some(a) : a \in AvgInputs}
    /\ avgKcal = None
    /\ NoRange /\ NoMerge /\ NoWorkout /\ NoText /\ NoDateCall /\ NoTrimp /\ NoCsv /\ NoImport /\ NoMeals

CallEstimateWorkoutKcalFromAvgHR ==
    /\ avgArgs # None /\ avgKcal = None
    /\ avgKcal' = Some(estimateWorkoutKcalFromAvgHR(avgArgs[1]))
    /\ UNCHANGED <<rangeArgs, range, readback, mergeArgs, merged, series, profile,
                   workout, text, est, avgArgs, engine, dateArg, parsedDate,
                   trimpArgs, trimp, csvText, parsed, importVars, mealVars>>

NextAvg == CallEstimateWorkoutKcalFromAvgHR

SpecAvg == InitAvg /\ [][NextAvg]_vars

\* C15: for every positive heart rate, weight and age the per-minute rate of
\* the sex-specific regression, as multiplied by minutes and calFactor, is
\* strictly positive.
C15_PositiveRate ==
    /\ avgKcal # None
    /\ ~Falsy(avgArgs[1].hrAvg) /\ ~Falsy(avgArgs[1].weightKg) /\ ~Falsy(avgArgs[1].age)
    => QLt(I(0), kcalPerMin(avgArgs[1].sex, avgArgs[1].hrAvg, avgArgs[1].weightKg,
                            avgArgs[1].age))

-----------------------------------------------------------------------------
(* Time-series ingestion: timestamps *)

\* A Date is <<seconds, milliseconds>> since the epoch and null is <<>>.  The
\* local time zone is taken as UTC.  Date.parse is fixed by the language for
\* "YYYY-MM-DD" and "YYYY-MM-DDTHH:mm[:ss]" only; whether it accepts the same
\* with a blank for the T, or with slashes, is left to the engine: engine is
\* [space, slash], the formats this one accepts.  Every other string of the
\* inputs below (empty, letters, digits only) gives NaN.
null == <<>>

\* the days from 1970-01-01 to y-m-d
DaysFromCivil(y, m, d) ==
    LET yy == IF m <= 2 THEN y - 1 ELSE y
        era == yy \div 400
        yoe == yy - era * 400
        doy == (153 * (IF m > 2 THEN m - 3 ELSE m + 9) + 2) \div 5 + d - 1
        doe == yoe * 365 + yoe \div 4 - yoe \div 100 + doy
    IN  era * 146097 + doe - 719468

DaysIn(y, m) ==
    IF m \in {4, 6, 9, 11} THEN 30
    ELSE IF m # 2 THEN 31
    ELSE IF y % 4 = 0 /\ (y % 100 # 0 \/ y % 400 = 0) THEN 29 ELSE 28

AllDigits(s, p, e) == \A k \in p..(e - 1) : k <= Len(s) /\ IsDigit(s[k])

\* s is YYYY dsep MM dsep DD, alone or followed by tsep HH:mm or tsep HH:mm:ss
HasDateShape(s, dsep, tseps) ==
    /\ Len(s) \in {10, 16, 19}
    /\ AllDigits(s, 1, 5) /\ s[5] = dsep /\ AllDigits(s, 6, 8) /\ s[8] = dsep
    /\ AllDigits(s, 9, 11)
    /\ (Len(s) >= 16 => s[11] \in tseps /\ AllDigits(s, 12, 14) /\ s[14] = ":"
                         /\ AllDigits(s, 15, 17))
    /\ (Len(s) = 19 => s[17] = ":" /\ AllDigits(s, 18, 20))

\* the time value of a string of that shape, NaN when a field is out of range
TimeValueOf(s) ==
    LET y == DigitsValue(s, 1, 5)
        m == DigitsValue(s, 6, 8)
        d == DigitsValue(s, 9, 11)
        h == IF Len(s) >= 16 THEN DigitsValue(s, 12, 14) ELSE 0
        mi == IF Len(s) >= 16 THEN DigitsValue(s, 15, 17) ELSE 0
        sec == IF Len(s) = 19 THEN DigitsValue(s, 18, 20) ELSE 0
    IN  IF m \in 1..12 /\ d >= 1 /\ d <= DaysIn(y, m) /\ h <= 23 /\ mi <= 59 /\ sec <= 59
        THEN <<DaysFromCivil(y, m, d) * 86400 + h * 3600 + mi * 60 + sec, 0>>
        ELSE NaN

\* Date.parse(s) on engine eng
DateParse(eng, s) ==
    IF HasDateShape(s, "-", {"T"}) THEN TimeValueOf(s)
    ELSE IF HasDateShape(s, "-", {" "}) THEN (IF eng.space THEN TimeValueOf(s) ELSE NaN)
    ELSE IF HasDateShape(s, "/", {" ", "T"}) THEN (IF eng.slash THEN TimeValueOf(s) ELSE NaN)
    ELSE NaN

\* s.replace(/\//g, "-")
SlashesToHyphens(s) == [k \in 1..Len(s) |-> IF s[k] = "/" THEN "-" ELSE s[k]]

\* the second attempt of tryParseDate, given its Date.parse result
secondAttempt(t2) == IF t2 # NaN THEN t2 ELSE null

\* the attempts of tryParseDate, given the result of the first Date.parse
firstAttempt(eng, s, t) ==
    IF t # NaN THEN t ELSE secondAttempt(DateParse(eng, SlashesToHyphens(s)))

tryParseDate(eng, s) ==
    IF s = <<>> THEN null ELSE firstAttempt(eng, s, DateParse(eng, s))

Two(n) == <<Digits[(n \div 10) + 1], Digits[(n % 10) + 1]>>

\* y-m-d h:mi:sec written with the separators dsep and tsep, to the length len
Written(y, m, d, h, mi, sec, dsep, tsep, len) ==
    SubSeq(DigitsOf(y) \o <<dsep>> \o Two(m) \o <<dsep>> \o Two(d) \o <<tsep>>
             \o Two(h) \o <<":">> \o Two(mi) \o <<":">> \o Two(sec), 1, len)

DateInputs ==
    {Written(2026, m, d, h, 34, 56, dsep, tsep, len) :
        m \in {2, 13}, d \in {3, 29}, h \in {12, 24},
        dsep \in {"-", "/"}, tsep \in {"T", " "}, len \in {10, 16, 19}}
    \cup { <<>>, <<"a", "b", "c">>, <<"1", "2", ":", "3", "4">>,
           <<"1", "7", "0", "0", "0", "0", "0", "0", "0", "0", "1", "2", "3">>,
           <<"1", "7", "0", "0", "0", "0", "0", "0", "0", "0">>,
           <<"1", "7", "0", "0", "0", "0", "0", "0", "0">> }

Engines == [space : BOOLEAN, slash : BOOLEAN]

InitDate ==
    /\ engine \in {Some(e) : e \in Engines}
    /\ dateArg \in {Some(s) : s \in DateInputs}
    /\ parsedDate = None
    /\ NoRange /\ NoMerge /\ NoWorkout /\ NoText /\ NoAvg /\ NoTrimp /\ NoCsv /\ NoImport /\ NoMeals

CallTryParseDate ==
    /\ dateArg # None /\ parsedDate = None
    /\ parsedDate' = Some(tryParseDate(engine[1], dateArg[1]))
    /\ UNCHANGED <<rangeArgs, range, readback, mergeArgs, merged, series, profile,
                   workout, text, est, avgArgs, avgKcal, engine, dateArg,
                   trimpArgs, trimp, csvText, parsed, importVars, mealVars>>

NextDate == CallTryParseDate

SpecDate == InitDate /\ [][NextDate]_vars

\* the value of the first ten digits, of the rest, of a string of digits
EpochSeconds(s) == DigitsValue(s, 1, 11)
EpochMillis(s) == DigitsValue(s, 11, Len(s) + 1)

\* C16: a 13-digit value is read as epoch milliseconds, a 10-digit value as
\* epoch seconds; otherwise the result is the generic parse of the string,
\* else the parse of the string with slashes replaced by hyphens, else null.
C16_ParseOrder ==
    parsedDate # None =>
        LET s == dateArg[1]
            t == DateParse(engine[1], s)
            t2 == DateParse(engine[1], SlashesToHyphens(s))
        IN  parsedDate[1] =
              IF Len(s) = 13 /\ AllDigits(s, 1, 14) THEN <<EpochSeconds(s), EpochMillis(s)>>
              ELSE IF Len(s) = 10 /\ AllDigits(s, 1, 11) THEN <<EpochSeconds(s), 0>>
              ELSE IF t # NaN THEN t
              ELSE IF t2 # NaN THEN t2
              ELSE null

-----------------------------------------------------------------------------
(* Training load *)

\* Math.exp has no exact value in rationals: it is enclosed.  ExpTable[k + 1]
\* is exp(k / 10) in thousandths, rounded down, for 0 <= k <= 24; between two
\* grid points exp lies above its tangent at the left one and below the chord.
ExpTable ==
    <<1000, 1105, 1221, 1349, 1491, 1648, 1822, 2013, 2225, 2459, 2718, 3004, 3320,
      3669, 4055, 4481, 4953, 5473, 6049, 6685, 7389, 8166, 9025, 9974, 11023>>

\* bounds of exp(x) for 0 <= x < 2.4, with k = floor(10 x) and r = (10 x - k) * x[2]
ExpBounds(x, k, r) ==
    [lo |-> Q(ExpTable[k + 1] + ((ExpTable[k + 1] * r) \div (10 * x[2])), 1000),
     hi |-> Q(((ExpTable[k + 1] + 1) * (x[2] - r) + (ExpTable[k + 2] + 1) * r + x[2] - 1)
                \div x[2], 1000)]

Exp(x) == ExpBounds(x, (10 * x[1]) \div x[2], 10 * x[1] - ((10 * x[1]) \div x[2]) * x[2])

\* the values Math.round(c * Math.exp(x)) can take
RoundedTimesExp(c, e) ==
    IF c[1] >= 0 THEN Round(QMul(c, e.lo))..Round(QMul(c, e.hi))
    ELSE Round(QMul(c, e.hi))..Round(QMul(c, e.lo))

\* Math.round(minutes * HRr * a * Math.exp(b * HRr))
trimpOf(minutes, HRr, a, b) ==
    RoundedTimesExp(QMul(QMul(minutes, HRr), a), Exp(QMul(b, HRr)))

trimpBanister_noRestCheck(args) ==
    IF Falsy(args.minutes) \/ Falsy(args.hrAvg) \/ Falsy(args.hrMax)
    THEN {0}
    ELSE IF QLe(QSub(args.hrMax, args.hrRest), I(0)) THEN {0}
    ELSE trimpOf(args.minutes,
                 clamp(QDiv(QSub(args.hrAvg, args.hrRest), QSub(args.hrMax, args.hrRest)),
                       I(0), Q(12, 10)),
                 IF args.sex = "female" THEN Q(86, 100) ELSE Q(64, 100),
                 IF args.sex = "female" THEN Q(167, 100) ELSE Q(192, 100))

\* the values trimpBanister can return
trimpBanister(args) ==
    IF Falsy(args.minutes) \/ Falsy(args.hrAvg) \/ Falsy(args.hrRest) \/ Falsy(args.hrMax)
    THEN {0}
    ELSE IF QLe(QSub(args.hrMax, args.hrRest), I(0)) THEN {0}
    ELSE trimpOf(args.minutes,
                 clamp(QDiv(QSub(args.hrAvg, args.hrRest), QSub(args.hrMax, args.hrRest)),
                       I(0), Q(12, 10)),
                 IF args.sex = "female" THEN Q(86, 100) ELSE Q(64, 100),
                 IF args.sex = "female" THEN Q(167, 100) ELSE Q(192, 100))

TrimpInputs ==
    [minutes : {NaN, I(0), I(30), Q(1, 2), I(-30)},
     hrAvg : {I(0), I(40), I(60), I(110), I(135), I(160), I(185), I(250)},
     hrRest : {I(0), I(60), I(160)},
     hrMax : {NaN, I(0), I(60), I(160)},
     sex : {"male", "female"}]

InitTrimp ==
    /\ trimpArgs \in {Some(a) : a \in TrimpInputs}
    /\ trimp = None
    /\ NoRange /\ NoMerge /\ NoWorkout /\ NoText /\ NoAvg /\ NoDateCall /\ NoCsv /\ NoImport /\ NoMeals

CallTrimpBanister ==
    /\ trimpArgs # None /\ trimp = None
    /\ \E v \in trimpBanister(trimpArgs[1]) : trimp' = Some(v)
    /\ UNCHANGED <<rangeArgs, range, readback, mergeArgs, merged, series, profile,
                   workout, text, est, avgArgs, avgKcal, engine, dateArg, parsedDate,
                   trimpArgs, csvText, parsed, importVars, mealVars>>

NextTrimp == CallTrimpBanister

SpecTrimp == InitTrimp /\ [][NextTrimp]_vars

\* an input of trimpBanister is missing or zero, or hrMax <= hrRest
TrimpDegenerate(a) ==
    \/ Falsy(a.minutes) \/ Falsy(a.hrAvg) \/ Falsy(a.hrRest) \/ Falsy(a.hrMax)
    \/ QLe(a.hrMax, a.hrRest)

\* (avgHr - hrRest) / (hrMax - hrRest) brought into [0, 1.2]
ReserveFraction(a) ==
    LET f == QDiv(QSub(a.hrAvg, a.hrRest), QSub(a.hrMax, a.hrRest))
    IN  IF QLt(f, I(0)) THEN I(0) ELSE IF QLt(Q(6, 5), f) THEN Q(6, 5) ELSE f

\* the score for the reserve fraction h
ScoreFor(a, h) ==
    IF a.sex = "female" THEN trimpOf(a.minutes, h, Q(43, 50), Q(167, 100))
    ELSE trimpOf(a.minutes, h, Q(16, 25), Q(48, 25))

\* C19 as stated: 0 when an input is missing or zero or hrMax <= hrRest;
\* otherwise the score of the clamped reserve fraction, and never negative.
C19_Original ==
    trimp # None =>
        /\ TrimpDegenerate(trimpArgs[1]) => trimp[1] = 0
        /\ ~TrimpDegenerate(trimpArgs[1]) =>
               trimp[1] \in ScoreFor(trimpArgs[1], ReserveFraction(trimpArgs[1]))
        /\ trimp[1] >= 0

\* C19: trimpBanister returns 0 when minutes, avgHr, hrRest or hrMax is missing
\* or zero or hrMax <= hrRest; otherwise the score is that of the fraction
\* (avgHr - hrRest) / (hrMax - hrRest) clamped into [0, 1.2], so an average
\* above hrMax is tolerated, and for a positive duration it is never negative.
C19_TrimpGuards ==
    trimp # None =>
        /\ TrimpDegenerate(trimpArgs[1]) => trimp[1] = 0
        /\ ~TrimpDegenerate(trimpArgs[1]) =>
               /\ trimp[1] \in ScoreFor(trimpArgs[1], ReserveFraction(trimpArgs[1]))
               /\ QLt(I(0), trimpArgs[1].minutes) => trimp[1] >= 0

\* an average above hrMax gave a positive score
C19_Witness ==
    /\ trimp # None /\ ~TrimpDegenerate(trimpArgs[1])
    /\ QLt(trimpArgs[1].hrMax, trimpArgs[1].hrAvg)
    /\ trimp[1] > 0

-----------------------------------------------------------------------------
(* Time-series ingestion: the CSV reader *)

\* String.prototype.split on a one-character separator
RECURSIVE SplitOn(_, _)
SplitOn(s, d) ==
    IF \A k \in 1..Len(s) : s[k] # d THEN <<s>>
    ELSE <<SubSeq(s, 1, FirstOf({k \in 1..Len(s) : s[k] = d}) - 1)>>
           \o SplitOn(SubSeq(s, FirstOf({k \in 1..Len(s) : s[k] = d}) + 1, Len(s)), d)

\* a character String.prototype.trim removes
IsWhiteSpace(c) == c \in {" ", "\t", "\n", "\r"}

\* String.prototype.trim
RECURSIVE trim(_)
trim(s) ==
    IF s = <<>> THEN s
    ELSE IF IsWhiteSpace(s[1]) THEN trim(Tail(s))
    ELSE IF IsWhiteSpace(s[Len(s)]) THEN trim(SubSeq(s, 1, Len(s) - 1))
    ELSE s

\* text.replace(/\r/g, "").split("\n").filter(l => l.trim().length > 0)
linesOf(txt) ==
    SelectSeq(SplitOn(SelectSeq(txt, LAMBDA c : c # "\r"), "\n"),
              LAMBDA l : Len(trim(l)) > 0)

delims == <<",", "\t", ";", "|">>

\* the delimiter guess from candidate k on: [best, bestCount]
RECURSIVE guessFrom(_, _, _)
guessFrom(first, k, b) ==
    IF k > Len(delims) THEN b
    ELSE IF Len(SplitOn(first, delims[k])) > b.bestCount
    THEN guessFrom(first, k + 1, [best |-> delims[k],
                                  bestCount |-> Len(SplitOn(first, delims[k]))])
    ELSE guessFrom(first, k + 1, b)

\* splitLine from character i on; out, cur and inQ as in the loop
RECURSIVE splitLineFrom(_, _, _, _, _, _)
splitLineFrom(line, best, i, out, cur, inQ) ==
    IF i > Len(line) THEN Append(out, trim(cur))
    ELSE IF line[i] = "\"" THEN splitLineFrom(line, best, i + 1, out, cur, ~inQ)
    ELSE IF ~inQ /\ line[i] = best
    THEN splitLineFrom(line, best, i + 1, Append(out, trim(cur)), <<>>, inQ)
    ELSE splitLineFrom(line, best, i + 1, out, Append(cur, line[i]), inQ)

splitLine(line, best) == splitLineFrom(line, best, 1, <<>>, <<>>, FALSE)

\* h.replace(/^"|"$/g, "")
stripQuotes(h) ==
    SubSeq(h, IF h # <<>> /\ h[1] = "\"" THEN 2 ELSE 1,
              IF h # <<>> /\ h[Len(h)] = "\"" THEN Len(h) - 1 ELSE Len(h))

headersOf(line, best) ==
    [i \in 1..Len(splitLine(line, best)) |-> stripQuotes(splitLine(line, best)[i])]

\* obj after headers.forEach((h, i) => obj[h] = cols[i] ?? ""): the last
\* column of a repeated header stays
rowObject(headers, cols) ==
    [h \in Range(headers) |->
        IF FirstOf({-i : i \in {j \in 1..Len(headers) : headers[j] = h}}) > -1 - Len(cols)
        THEN cols[-FirstOf({-i : i \in {j \in 1..Len(headers) : headers[j] = h}})]
        ELSE <<>>]

parsedWith(lines, best, headers) ==
    [headers |-> headers,
     rows |-> [k \in 1..(Len(lines) - 1) |-> rowObject(headers, splitLine(lines[k + 1], best))],
     delim |-> best]

parsedLines(lines) ==
    IF Len(lines) < 2 THEN [headers |-> <<>>, rows |-> <<>>, delim |-> "undefined"]
    ELSE parsedWith(lines, guessFrom(lines[1], 1, [best |-> ",", bestCount |-> 0]).best,
                    headersOf(lines[1], guessFrom(lines[1], 1, [best |-> ",", bestCount |-> 0]).best))

parseCSV(txt) == parsedLines(linesOf(txt))

MaxHeaderLen == 4

HeaderChars == {"a", ",", ";", "|", "\t", "\"", " "}

\* a header line of up to MaxHeaderLen characters, then nothing, a line break,
\* or a line break and one data line; and two files with a quoted header
CsvInputs ==
    {h \o rest : h \in SeqsUpTo(HeaderChars, MaxHeaderLen),
                 rest \in {<<>>, <<"\r", "\n">>, <<"\n", "1", ",", "2">>,
                           <<"\r", "\n", " ", "\n", "1", ";", "\"", "2", ";", "\"", "\n">>}}
    \cup { <<"\"", "a", ",", "b", "\"", ";", "c", "\n", "1", ";", "2">>,
           <<"\"", "a", ",", "b", "\"", ",", "c", "\n", "1", ",", "2">> }

InitCsv ==
    /\ csvText \in {Some(t) : t \in CsvInputs}
    /\ parsed = None
    /\ NoRange /\ NoMerge /\ NoWorkout /\ NoText /\ NoAvg /\ NoDateCall /\ NoTrimp /\ NoImport /\ NoMeals

CallParseCSV ==
    /\ csvText # None /\ parsed = None
    /\ parsed' = Some(parseCSV(csvText[1]))
    /\ UNCHANGED <<rangeArgs, range, readback, mergeArgs, merged, series, profile,
                   workout, text, est, avgArgs, avgKcal, engine, dateArg, parsedDate,
                   trimpArgs, trimp, csvText, importVars, mealVars>>

NextCsv == CallParseCSV

SpecCsv == InitCsv /\ [][NextCsv]_vars

\* the number of fields candidate d splits the header line into
FieldCount(d) == Len(SplitOn(linesOf(csvText[1])[1], d))

\* C20: the delimiter is the candidate that splits the header line into the
\* most fields, the earliest of them on a tie, and the number of returned
\* headers is that field count, also when header fields are double-quoted.
C20_DelimiterAndHeaders ==
    (parsed # None /\ Len(linesOf(csvText[1])) >= 2) =>
        \E k \in 1..Len(delims) :
            /\ parsed[1].delim = delims[k]
            /\ \A j \in 1..Len(delims) : FieldCount(delims[j]) <= FieldCount(delims[k])
            /\ \A j \in 1..(k - 1) : FieldCount(delims[j]) < FieldCount(delims[k])
            /\ Len(parsed[1].headers) = FieldCount(delims[k])

-----------------------------------------------------------------------------
(* Time-series ingestion: the import dialogue *)

\* The file picked in the hrCsv input is an input of the import handler.  The
\* options of the two selects are the headers of csvCache, the preview is a
\* function of csvCache; the id, time, type and note of the new workout (a
\* random id, two text fields, the formatted start) are left out of the
\* record.  Status texts are written as tags.

\* Number(x) for a trimmed cell: the empty string is 0, a signed string of
\* digits its value, anything else of the inputs below NaN
NumberOf(x) ==
    IF x = <<>> THEN I(0)
    ELSE IF AllDigits(x, 1, Len(x) + 1) THEN I(DigitsValue(x, 1, Len(x) + 1))
    ELSE IF x[1] = "-" /\ Len(x) > 1 /\ AllDigits(x, 2, Len(x) + 1)
    THEN I(-DigitsValue(x, 2, Len(x) + 1))
    ELSE NaN

\* Number(x) of a string: white space at its ends is ignored
ToNumber(x) == NumberOf(trim(x))

\* String.prototype.includes
Includes(h, k) == \E p \in 1..(Len(h) - Len(k) + 1) : SubSeq(h, p, p + Len(k) - 1) = k

\* pickByKeys from key i on
RECURSIVE pickByKeys(_, _, _)
pickByKeys(headers, keys, i) ==
    IF i > Len(keys) THEN headers[1]
    ELSE IF \E j \in 1..Len(headers) : Includes(toLowerCase(headers[j]), keys[i])
    THEN headers[FirstOf({j \in 1..Len(headers) : Includes(toLowerCase(headers[j]), keys[i])})]
    ELSE pickByKeys(headers, keys, i + 1)

TimeKeys ==
    << <<"t", "i", "m", "e">>, <<"d", "a", "t", "e">>,
       <<"t", "i", "m", "e", "s", "t", "a", "m", "p">>, <<"kai1", "shi3">>,
       <<"shi2", "jian1">>, <<"d", "a", "t", "e", "t", "i", "m", "e">> >>
HrKeys == << <<"h", "r">>, <<"h", "e", "a", "r", "t">>, <<"xin1", "lv4">>, <<"b", "p", "m">> >>

\* Sample times are kept in ms after TimeBase: the estimator uses only their
\* differences.
TimeBase == DaysFromCivil(2026, 2, 3) * 86400
msOf(date) == (date[1] - TimeBase) * 1000 + date[2]

\* the loop over csvCache.rows, from row k on
RECURSIVE seriesFrom(_, _, _, _, _)
seriesFrom(rows, k, ct, ch, eng) ==
    IF k > Len(rows) THEN <<>>
    ELSE IF tryParseDate(eng, rows[k][ct]) # null /\ safeNum(ToNumber(rows[k][ch]), NaN) # NaN
    THEN <<[t |-> msOf(tryParseDate(eng, rows[k][ct])), hr |-> safeNum(ToNumber(rows[k][ch]), NaN)]>>
           \o seriesFrom(rows, k + 1, ct, ch, eng)
    ELSE seriesFrom(rows, k + 1, ct, ch, eng)

\* the record unshifted for the estimate e and the training load v
workoutRecord(e, v) ==
    [minutes |-> e.minutes, hrAvg |-> e.hrAvg, kcal |-> e.kcal,
     trimp |-> IF v = 0 THEN <<>> ELSE I(v), source |-> "csv"]

\* the end of the handler, from the call of the estimator on
importSeries(xs, pr, e) ==
    /\ handed' = Some(xs)
    /\ \E v \in trimpBanister([minutes |-> I(e.minutes), hrAvg |-> I(e.hrAvg),
                               hrRest |-> IF Falsy(pr.hrRest) THEN I(0) ELSE pr.hrRest,
                               hrMax |-> IF Falsy(pr.hrMax) THEN QSub(I(220), pr.age)
                                         ELSE pr.hrMax,
                               sex |-> pr.sex]) :
           workouts' = <<workoutRecord(e, v)>> \o workouts
    /\ saved' = workouts'
    /\ csvCache' = null
    /\ mapperHidden' = TRUE
    /\ status' = "imported"
    /\ UNCHANGED <<colTime, colHr>>

\* the handler after the weight test, with the series it built
confirmWith(xs, pr) ==
    IF Len(xs) < 2
    THEN /\ status' = "import_failed"
         /\ UNCHANGED <<csvCache, mapperHidden, colTime, colHr, workouts, saved, handed>>
    ELSE importSeries(xs, pr, estimateWorkoutKcalFromSeries(pr, xs))

MaxRows == 2
MaxWorkouts == 1

T0 == Written(2026, 2, 3, 12, 0, 0, "-", "T", 19)
T1 == Written(2026, 2, 3, 12, 0, 30, "-", "T", 19)
T2 == Written(2026, 2, 3, 12, 1, 0, "/", " ", 16)

RowInputs ==
    { T0 \o <<",", "1", "5", "0">>, T2 \o <<",", "4", "0">>, <<"x", ",", "1", "5", "0">>,
      T1 \o <<",">>, T1 \o <<",", "a", "b", "c">>, T1 \o <<",", "-", "5">> }

RECURSIVE JoinLines(_)
JoinLines(ls) == IF ls = <<>> THEN <<>> ELSE <<"\n">> \o Head(ls) \o JoinLines(Tail(ls))

\* the header time,hr and up to MaxRows rows
FileInputs ==
    {<<"t", "i", "m", "e", ",", "h", "r">> \o JoinLines(rs) : rs \in SeqsUpTo(RowInputs, MaxRows)}

\* parseCSV(txt) for every file that can be picked
ParsedFiles == [t \in FileInputs |-> parseCSV(t)]

StateProfiles ==
    [sex : {"male"}, weightKg : {I(0), I(70)}, age : {I(30)}, hrRest : {I(60)},
     hrMax : {I(190)}, calFactor : {I(1)}]

InitImport ==
    /\ csvCache = null /\ mapperHidden = TRUE
    /\ colTime = <<>> /\ colHr = <<>>
    /\ workouts = <<>> /\ saved = <<>>
    /\ status = "" /\ handed = None
    /\ stateProfile \in StateProfiles
    /\ engine \in {Some(e) : e \in Engines}
    /\ dateArg = None /\ parsedDate = None
    /\ NoRange /\ NoMerge /\ NoWorkout /\ NoText /\ NoAvg /\ NoTrimp /\ NoCsv /\ NoMeals

otherVars ==
    <<rangeArgs, range, readback, mergeArgs, merged, series, profile, workout, text, est,
      avgArgs, avgKcal, engine, dateArg, parsedDate, trimpArgs, trimp, csvText, parsed,
      stateProfile, mealVars>>

\* the click on importHrCsv with the file f picked, None for no file
ImportHrCsv(f) ==
    /\ IF f = None
       THEN /\ status' = "choose_file"
            /\ UNCHANGED <<csvCache, mapperHidden, colTime, colHr>>
       ELSE IF ParsedFiles[f[1]].headers = <<>>
       THEN /\ status' = "parse_failed"
            /\ UNCHANGED <<csvCache, mapperHidden, colTime, colHr>>
       ELSE /\ csvCache' = Some(ParsedFiles[f[1]])
            /\ mapperHidden' = FALSE
            /\ colTime' = pickByKeys(ParsedFiles[f[1]].headers, TimeKeys, 1)
            /\ colHr' = pickByKeys(ParsedFiles[f[1]].headers, HrKeys, 1)
            /\ status' = "csv_read"
    /\ UNCHANGED <<workouts, saved, handed, otherVars>>

\* the user picks other options in the two selects
SelectColumns(ct, ch) ==
    /\ csvCache # null /\ ~mapperHidden
    /\ ct \in Range(csvCache[1].headers) /\ ch \in Range(csvCache[1].headers)
    /\ colTime' = ct /\ colHr' = ch
    /\ UNCHANGED <<csvCache, mapperHidden, workouts, saved, status, handed, otherVars>>

CancelImportCsv ==
    /\ csvCache' = null
    /\ mapperHidden' = TRUE
    /\ status' = "cancelled"
    /\ UNCHANGED <<colTime, colHr, workouts, saved, handed, otherVars>>

ConfirmImportCsv ==
    /\ Len(workouts) < MaxWorkouts
    /\ IF csvCache = null
       THEN UNCHANGED importVars
       ELSE IF Falsy(stateProfile.weightKg)
       THEN /\ status' = "need_weight"
            /\ UNCHANGED <<csvCache, mapperHidden, colTime, colHr, workouts, saved, handed>>
       ELSE confirmWith(seriesFrom(csvCache[1].rows, 1, colTime, colHr, engine[1]),
                        stateProfile)
    /\ UNCHANGED otherVars

NextImport ==
    \/ \E f \in {None} \cup {Some(t) : t \in FileInputs} : ImportHrCsv(f)
    \/ \E ct, ch \in {<<"t", "i", "m", "e">>, <<"h", "r">>} : SelectColumns(ct, ch)
    \/ CancelImportCsv
    \/ ConfirmImportCsv

SpecImport == InitImport /\ [][NextImport]_vars

\* the rows of the cached file that give a timestamp and a heart rate in the
\* chosen columns: the time cell parses, the heart-rate cell is a number
SampleRows ==
    {k \in 1..Len(csvCache[1].rows) :
        /\ tryParseDate(engine[1], csvCache[1].rows[k][colTime]) # null
        /\ trim(csvCache[1].rows[k][colHr]) # <<>>
        /\ ToNumber(csvCache[1].rows[k][colHr]) # NaN}

\* C17: a confirmed import with fewer than two valid rows is rejected as
\* insufficient data and changes nothing (no workout added, nothing saved,
\* the cached file and the mapper stay); a workout is created only from at
\* least two valid rows.
C17_RejectedImport ==
    [][/\ (ConfirmImportCsv /\ csvCache # null /\ Cardinality(SampleRows) < 2) =>
              /\ UNCHANGED <<workouts, saved, csvCache, mapperHidden>>
              /\ ~Falsy(stateProfile.weightKg) => status' = "import_failed"
       /\ workouts' # workouts => (csvCache # null /\ Cardinality(SampleRows) >= 2)]_vars

\* C18: every sample handed to estimateWorkoutKcalFromSeries by the import has
\* a valid timestamp and a finite, positive bpm (rows with a time cell that
\* does not parse or a heart-rate cell that is empty or no number never
\* reach it).
C18_SamplesValid ==
    handed # None =>
        \A k \in 1..Len(handed[1]) :
            /\ handed[1][k].t # NoDate
            /\ handed[1][k].hr # NaN
            /\ QLt(I(0), handed[1][k].hr)

-----------------------------------------------------------------------------
(* Heart-rate energy estimator: the order of the samples *)

\* the orders in which n samples can be supplied
Orders(n) == {f \in [1..n -> 1..n] : \A i, j \in 1..n : f[i] = f[j] => i = j}

\* the series xs supplied in the order f
Reordered(xs, f) == [k \in 1..Len(xs) |-> xs[f[k]]]

\* C21: the result of estimateWorkoutKcalFromSeries (kcal, minutes, hrAvg) is
\* the same for every order in which the samples of the series are supplied,
\* also when several samples have the same timestamp and different heart rates.
C21_OrderIndependent ==
    workout # None =>
        \A f \in Orders(Len(series[1])) :
            estimateWorkoutKcalFromSeries(profile[1], Reordered(series[1], f)) = workout[1]

-----------------------------------------------------------------------------
(* Text estimator: a text that is one alias *)

\* C22: a text that is a single alias of one entry of FOOD_DB is matched to
\* that entry only: one matched element, and the range returned is the
\* default-portion range of that entry, never the sum with another entry
\* whose alias is a substring of the text.
C22_SingleAlias ==
    (Estimated /\ T \in Aliases) =>
        /\ E.ok
        /\ Len(E.explanation.parts) = 1
        /\ E.range.low = DefaultRange(FoodOf(T), T).low
        /\ E.range.high = DefaultRange(FoodOf(T), T).high

-----------------------------------------------------------------------------
(* The meal form *)

\* The form is [mealName, mealNote, kcalFinal, kcalLow, kcalHigh, mealUnc,
\* mealPhoto].  A text field holds a sequence of characters; a result field
\* holds <<>> when it is empty and else the number it shows; mealPhoto says
\* whether a file is chosen.  The time and the type of a meal, the text of
\* the suggestions and what the render functions draw are left out.  An id is
\* a positive number and 0 stands for the empty id "".

ResultFields == {"kcalFinal", "kcalLow", "kcalHigh", "mealUnc"}

\* Number(el.value) of a result field
FieldNumber(v) == IF v = <<>> THEN I(0) ELSE v

\* x || "" and x ? x : "" as a field value
ValueOrEmpty(x) == IF Falsy(x) THEN <<>> ELSE x

setKcalRangeFields(f, low, high) ==
    [f EXCEPT !.kcalLow = ValueOrEmpty(I(Max(0, Round(safeNum(low, I(0)))))),
              !.kcalHigh = ValueOrEmpty(I(Max(Max(0, Round(safeNum(low, I(0)))),
                                              Round(safeNum(high, I(0))))))]

setKcalRangeFromFinal(f, kcal, unc) ==
    IF Falsy(safeNum(kcal, I(0))) THEN f
    ELSE setKcalRangeFields(
             f,
             I(boundedRange(safeNum(kcal, I(0)),
                            clamp(safeNum(unc, Q(25, 100)), Q(5, 100), Q(60, 100))).low),
             I(boundedRange(safeNum(kcal, I(0)),
                            clamp(safeNum(unc, Q(25, 100)), Q(5, 100), Q(60, 100))).high))

mealFieldsAllEmpty(f) == \A id \in ResultFields : f[id] = <<>>

NameInputs == {<<>>, <<"mi", "fan">>}
NoteInputs == {<<>>, <<"dan">>}

\* `${name} ${note}`
textOf(name, note) == name \o <<" ">> \o note

\* estimateKcalRangeFromText for every text the form can hold
\* the texts the form can hold, and what estimateKcalRangeFromText returns
\* for each of them: est holds these results while the form is in use
FormTexts == {textOf(n, o) : n \in NameInputs, o \in NoteInputs}
AutoResults == est[1]

\* the form after maybeAutoEstimateMeal wrote the result res
autoWritten(f, res) ==
    [setKcalRangeFields(f, I(res.range.low), I(res.range.high))
        EXCEPT !.kcalFinal = ValueOrEmpty(I(res.range.mid)),
               !.mealUnc = ToFixed(res.uncSuggested, 100)]

\* maybeAutoEstimateMeal writes the fields
autoApplies(f, manual) == ~manual /\ AutoResults[textOf(f.mealName, f.mealNote)].ok

\* the form after maybeAutoEstimateMeal
maybeAutoEstimateMeal(f, manual) ==
    IF autoApplies(f, manual)
    THEN autoWritten(f, AutoResults[textOf(f.mealName, f.mealNote)])
    ELSE f

\* clearMealForm
clearedForm ==
    [mealName |-> <<>>, mealNote |-> <<>>, kcalFinal |-> <<>>, kcalLow |-> <<>>,
     kcalHigh |-> <<>>, mealUnc |-> Q(35, 100), mealPhoto |-> FALSE]

\* the addMeal handler after reading the result fields: kcal is final.kcal,
\* range is finalRange (null or [kcalLow, kcalHigh]), unc is unc
addRead(kcal0, lowIn, highIn, unc0) ==
    IF ~Falsy(lowIn) /\ ~Falsy(highIn) /\ QLe(lowIn, highIn)
    THEN [kcal |-> IF Falsy(kcal0) THEN I(Round(Q(Round(lowIn) + Round(highIn), 2)))
                   ELSE kcal0,
          range |-> Some([kcalLow |-> Round(lowIn), kcalHigh |-> Round(highIn)]),
          unc |-> unc0]
    ELSE [kcal |-> kcal0, range |-> null, unc |-> unc0]

addReadForm(f) ==
    addRead(safeNum(FieldNumber(f.kcalFinal), I(0)), safeNum(FieldNumber(f.kcalLow), I(0)),
            safeNum(FieldNumber(f.kcalHigh), I(0)),
            clamp(safeNum(FieldNumber(f.mealUnc), Q(35, 100)), I(0), I(1)))

\* the text estimate is tried, and it is ok
addEstimates(d, f) ==
    /\ Falsy(d.kcal) \/ d.range = null
    /\ f.mealName # <<>> \/ f.mealNote # <<>>
    /\ AutoResults[textOf(f.mealName, f.mealNote)].ok

\* d after the text estimate res filled what was missing
addFilled(d, f, res) ==
    [kcal |-> IF ~Falsy(d.kcal) THEN d.kcal
              ELSE IF res.range.mid # 0 THEN I(res.range.mid)
              ELSE IF d.range = null THEN I(Round(Q(res.range.low + res.range.high, 2)))
              ELSE I(Round(Q(d.range[1].kcalLow + d.range[1].kcalHigh, 2))),
     range |-> IF d.range = null
               THEN Some([kcalLow |-> res.range.low, kcalHigh |-> res.range.high])
               ELSE d.range,
     unc |-> IF f.mealUnc = <<>> THEN clamp(res.uncSuggested, I(0), I(1)) ELSE d.unc]

\* the form after the handler synced it with the filled values
addSynced(f, d) ==
    [setKcalRangeFields(f, I(d.range[1].kcalLow), I(d.range[1].kcalHigh))
        EXCEPT !.kcalFinal = ValueOrEmpty(d.kcal), !.mealUnc = ToFixed(d.unc, 100)]

\* the range derived from mid and unc when it is still missing
addDerived(d) ==
    IF d.range = null /\ ~Falsy(d.kcal)
    THEN [d EXCEPT !.range =
             Some([kcalLow |-> boundedRange(d.kcal, clamp(d.unc, Q(5, 100), Q(60, 100))).low,
                   kcalHigh |-> boundedRange(d.kcal, clamp(d.unc, Q(5, 100), Q(60, 100))).high])]
    ELSE d

\* final, finalRange and unc of the meal the handler builds from the form
addValues(f) ==
    IF addEstimates(addReadForm(f), f)
    THEN addDerived(addFilled(addReadForm(f), f, AutoResults[textOf(f.mealName, f.mealNote)]))
    ELSE addDerived(addReadForm(f))

\* the handler returns with "write at least a description"
addRejected(d) == Falsy(d.kcal) /\ d.range = null

\* the meal built from the form, with id and photoId
mealOf(f, d, id, photoId) ==
    [id |-> id, name |-> f.mealName, note |-> f.mealNote, final |-> [kcal |-> d.kcal],
     finalRange |-> d.range, unc |-> d.unc, photoId |-> photoId]

(***************************************************************************)
(* The meal list, the edit action and the two addMeal click handlers.      *)
(* A handler runs up to its first await in the step of the click; what     *)
(* follows an await or a timer is a task that runs in a later step, in any *)
(* order with the other tasks and with further user events.                *)
(***************************************************************************)
MaxEvents == 4

StoredWithPhoto ==
    [id |-> 1, name |-> <<"mi", "fan">>, note |-> <<>>, final |-> [kcal |-> I(234)],
     finalRange |-> Some([kcalLow |-> 168, kcalHigh |-> 300]), unc |-> Q(28, 100),
     photoId |-> 3]
StoredPlain ==
    [id |-> 2, name |-> <<>>, note |-> <<"dan">>, final |-> [kcal |-> I(500)],
     finalRange |-> Some([kcalLow |-> 325, kcalHigh |-> 675]), unc |-> Q(35, 100),
     photoId |-> 0]
MealLists == {<<StoredWithPhoto>>, <<StoredWithPhoto, StoredPlain>>,
              <<StoredPlain, StoredWithPhoto>>}

TypedValues == {<<>>, I(500)}
NoEditing == [photoId |-> 0, originalId |-> 0]
NoScenario == [stage |-> "none", photo |-> 0, accepted |-> FALSE, newId |-> 0, others |-> {}]
AllFrom(tag) == [id \in ResultFields |-> tag]
\* who wrote the fields after a write of all four by tag: a field whose value
\* the write left as it was keeps its origin
Rewritten(f, g, tag) == [id \in ResultFields |-> IF g[id] = f[id] THEN origin[id] ELSE tag]
Task(kind, n, meal, photoId) == [kind |-> kind, n |-> n, meal |-> meal, photoId |-> photoId]
NoMeal == mealOf(clearedForm, addReadForm(clearedForm), 0, 0)
Without(xs, i) == [k \in 1..(Len(xs) - 1) |-> IF k < i THEN xs[k] ELSE xs[k + 1]]

mealFrame ==
    <<rangeArgs, range, readback, mergeArgs, merged, series, profile, workout, text, est,
      avgArgs, avgKcal, engine, dateArg, parsedDate, trimpArgs, trimp, csvText, parsed,
      csvCache, mapperHidden, colTime, colHr, workouts, saved, handed, stateProfile>>

InitMeals ==
    /\ meals \in MealLists /\ savedMeals = meals
    /\ photos = {StoredWithPhoto.photoId}
    /\ editing = NoEditing /\ mealManual = FALSE
    /\ form = clearedForm
    /\ tasks = {} /\ nextId = 4 /\ events = 0
    /\ origin = AllFrom("init") /\ scenario = NoScenario
    /\ status = ""
    /\ csvCache = None /\ mapperHidden = None /\ colTime = None /\ colHr = None
    /\ workouts = None /\ saved = None /\ handed = None /\ stateProfile = None
    /\ text = None
    /\ est = Some([t \in FormTexts |-> estimateKcalRangeFromText(t)])
    /\ NoRange /\ NoMerge /\ NoWorkout /\ NoAvg /\ NoDateCall /\ NoTrimp /\ NoCsv

UserEvent ==
    /\ events < MaxEvents
    /\ events' = events + 1

\* input listener of kcalFinal, kcalLow, kcalHigh and mealUnc, after the
\* user made field id read v
TypeResultField(id, v) ==
    /\ UserEvent
    /\ form[id] # v
    /\ IF mealFieldsAllEmpty([form EXCEPT ![id] = v])
       THEN /\ mealManual' = FALSE
            /\ form' = maybeAutoEstimateMeal([form EXCEPT ![id] = v], FALSE)
            /\ origin' = Rewritten([form EXCEPT ![id] = v], form', "refill")
            /\ status' = IF autoApplies([form EXCEPT ![id] = v], FALSE)
                         THEN "auto_estimated" ELSE status
       ELSE /\ mealManual' = TRUE
            /\ form' = [form EXCEPT ![id] = v]
            /\ origin' = [origin EXCEPT ![id] = "user"]
            /\ status' = status
    /\ UNCHANGED <<meals, savedMeals, photos, editing, tasks, nextId, scenario, mealFrame>>

\* input listener of mealName and mealNote
TypeText(id, v) ==
    /\ UserEvent
    /\ form[id] # v
    /\ form' = maybeAutoEstimateMeal([form EXCEPT ![id] = v], mealManual)
    /\ origin' = Rewritten([form EXCEPT ![id] = v], form', "auto")
    /\ status' = IF autoApplies([form EXCEPT ![id] = v], mealManual)
                 THEN "auto_estimated" ELSE status
    /\ UNCHANGED <<meals, savedMeals, photos, editing, mealManual, tasks, nextId, scenario,
                   mealFrame>>

\* the user picks a photo file, or takes the choice back
ChoosePhoto ==
    /\ UserEvent
    /\ form' = [form EXCEPT !.mealPhoto = ~form.mealPhoto]
    /\ UNCHANGED <<meals, savedMeals, photos, editing, mealManual, tasks, nextId, origin,
                   scenario, status, mealFrame>>

\* click on "clear form": clearMealForm(true)
ClearMealFormClick ==
    /\ UserEvent
    /\ form' = clearedForm
    /\ mealManual' = FALSE
    /\ origin' = AllFrom("clear")
    /\ status' = "form_cleared"
    /\ UNCHANGED <<meals, savedMeals, photos, editing, tasks, nextId, scenario, mealFrame>>

\* the form after the edit handler loaded meal m into it
editLoaded(f, m) ==
    IF m.finalRange # null /\ m.finalRange[1].kcalLow # 0 /\ m.finalRange[1].kcalHigh # 0
    THEN [f EXCEPT !.mealName = m.name, !.mealNote = m.note,
                   !.kcalFinal = ValueOrEmpty(safeNum(m.final.kcal, I(0))),
                   !.mealUnc = ToFixed(safeNum(m.unc, Q(35, 100)), 100),
                   !.kcalLow = ValueOrEmpty(safeNum(I(m.finalRange[1].kcalLow), I(0))),
                   !.kcalHigh = ValueOrEmpty(safeNum(I(m.finalRange[1].kcalHigh), I(0)))]
    ELSE setKcalRangeFromFinal(
             [f EXCEPT !.mealName = m.name, !.mealNote = m.note,
                       !.kcalFinal = ValueOrEmpty(safeNum(m.final.kcal, I(0))),
                       !.mealUnc = ToFixed(safeNum(m.unc, Q(35, 100)), 100)],
             m.final.kcal, m.unc)

\* click on "edit" of the i-th meal of the list
EditClick(i) ==
    /\ UserEvent
    /\ i \in 1..Len(meals)
    /\ form' = editLoaded(form, meals[i])
    /\ meals' = Without(meals, i)
    /\ tasks' = tasks \cup {Task("editSave", events, NoMeal, 0)}
    /\ editing' = [photoId |-> meals[i].photoId, originalId |-> meals[i].id]
    /\ origin' = AllFrom("edit")
    /\ scenario' = IF meals[i].photoId # 0
                   THEN [stage |-> "edited", photo |-> meals[i].photoId, accepted |-> FALSE,
                         newId |-> 0,
                         others |-> {<<meals'[k].id, meals'[k].photoId>> : k \in 1..Len(meals')}]
                   ELSE NoScenario
    /\ UNCHANGED <<savedMeals, photos, mealManual, nextId, status, mealFrame>>

\* the tasks the second addMeal listener leaves behind, and the flags after it
overrideTasks(n) ==
    IF editing.originalId = 0 THEN {}
    ELSE IF ~form.mealPhoto /\ editing.photoId # 0 THEN {Task("timer50", n, NoMeal, 0)}
    ELSE IF form.mealPhoto /\ editing.photoId # 0 THEN {Task("timer200", n, NoMeal, 0)}
    ELSE {}
overrideFlags ==
    IF editing.originalId # 0 /\ editing.photoId = 0 THEN NoEditing ELSE editing

\* click on "add meal": the first listener up to its first await with the
\* values d, then the second listener
AddClickWith(d) ==
    /\ form' = IF addEstimates(addReadForm(form), form) /\ ~mealManual
               THEN addSynced(form, addFilled(addReadForm(form), form,
                                              AutoResults[textOf(form.mealName, form.mealNote)]))
               ELSE form
    /\ origin' = Rewritten(form, form', "add")
    /\ IF addRejected(d)
       THEN /\ status' = "need_description"
            /\ tasks' = tasks \cup overrideTasks(events)
            /\ UNCHANGED <<meals, nextId>>
       ELSE IF form.mealPhoto
       THEN /\ tasks' = tasks \cup overrideTasks(events)
                          \cup {Task("addCompress", events, mealOf(form, d, 0, 0), 0)}
            /\ UNCHANGED <<meals, nextId, status>>
       ELSE /\ meals' = <<mealOf(form, d, nextId, 0)>> \o meals
            /\ nextId' = nextId + 1
            /\ tasks' = tasks \cup overrideTasks(events)
                          \cup {Task("addSave", events, NoMeal, 0)}
            /\ status' = status
    /\ editing' = overrideFlags
    /\ scenario' = IF scenario.stage = "edited" /\ ~form.mealPhoto
                   THEN [scenario EXCEPT !.stage = "added", !.accepted = ~addRejected(d),
                                         !.newId = IF addRejected(d) THEN 0 ELSE nextId]
                   ELSE NoScenario
    /\ UNCHANGED <<savedMeals, photos, mealManual, mealFrame>>

AddClick ==
    /\ UserEvent
    /\ AddClickWith(addValues(form))

\* compressImageToBlob has resolved, with a blob or with null
AddCompressDone(t, blob) ==
    /\ t \in tasks /\ t.kind = "addCompress"
    /\ IF blob
       THEN /\ tasks' = (tasks \ {t}) \cup {Task("addPut", t.n, t.meal, nextId)}
            /\ UNCHANGED meals
       ELSE /\ meals' = <<[t.meal EXCEPT !.id = nextId]>> \o meals
            /\ tasks' = (tasks \ {t}) \cup {Task("addSave", t.n, NoMeal, 0)}
    /\ nextId' = nextId + 1
    /\ UNCHANGED <<savedMeals, photos, editing, mealManual, form, events, origin, scenario,
                   status, mealFrame>>

\* photoPut has resolved
AddPutDone(t) ==
    /\ t \in tasks /\ t.kind = "addPut"
    /\ photos' = photos \cup {t.photoId}
    /\ meals' = <<[t.meal EXCEPT !.id = nextId, !.photoId = t.photoId]>> \o meals
    /\ nextId' = nextId + 1
    /\ tasks' = (tasks \ {t}) \cup {Task("addSave", t.n, NoMeal, 0)}
    /\ UNCHANGED <<savedMeals, editing, mealManual, form, events, origin, scenario, status,
                   mealFrame>>

\* saveState of the first listener has resolved: clearMealForm(false)
AddSaveDone(t) ==
    /\ t \in tasks /\ t.kind = "addSave"
    /\ tasks' = tasks \ {t}
    /\ savedMeals' = meals
    /\ form' = clearedForm
    /\ mealManual' = FALSE
    /\ origin' = AllFrom("clear")
    /\ status' = "meal_added"
    /\ UNCHANGED <<meals, photos, editing, nextId, events, scenario, mealFrame>>

\* saveState of the edit handler has resolved
EditSaveDone(t) ==
    /\ t \in tasks /\ t.kind = "editSave"
    /\ tasks' = tasks \ {t}
    /\ savedMeals' = meals
    /\ status' = "editing"
    /\ UNCHANGED <<meals, photos, editing, mealManual, form, nextId, events, origin, scenario,
                   mealFrame>>

\* the 50 ms timer of the second listener fires
Timer50(t) ==
    /\ t \in tasks /\ t.kind = "timer50"
    /\ IF meals # <<>>
       THEN /\ meals' = [meals EXCEPT ![1].photoId = editing.photoId]
            /\ tasks' = (tasks \ {t}) \cup {Task("timer50Save", t.n, NoMeal, 0)}
       ELSE /\ tasks' = tasks \ {t}
            /\ UNCHANGED meals
    /\ UNCHANGED <<savedMeals, photos, editing, mealManual, form, nextId, events, origin,
                   scenario, status, mealFrame>>

\* saveState of the 50 ms timer has resolved
Timer50SaveDone(t) ==
    /\ t \in tasks /\ t.kind = "timer50Save"
    /\ tasks' = tasks \ {t}
    /\ savedMeals' = meals
    /\ editing' = NoEditing
    /\ status' = "photo_kept"
    /\ UNCHANGED <<meals, photos, mealManual, form, nextId, events, origin, scenario,
                   mealFrame>>

\* the 200 ms timer of the second listener fires: photoDel is called
Timer200(t) ==
    /\ t \in tasks /\ t.kind = "timer200"
    /\ tasks' = (tasks \ {t}) \cup {Task("timer200Del", t.n, NoMeal, editing.photoId)}
    /\ UNCHANGED <<meals, savedMeals, photos, editing, mealManual, form, nextId, events,
                   origin, scenario, status, mealFrame>>

\* photoDel of the 200 ms timer has resolved
Timer200DelDone(t) ==
    /\ t \in tasks /\ t.kind = "timer200Del"
    /\ tasks' = tasks \ {t}
    /\ photos' = photos \ {t.photoId}
    /\ editing' = NoEditing
    /\ status' = "photo_replaced"
    /\ UNCHANGED <<meals, savedMeals, mealManual, form, nextId, events, origin, scenario,
                   mealFrame>>

NextMeals ==
    \/ \E id \in ResultFields, v \in TypedValues : TypeResultField(id, v)
    \/ \E id \in {"mealName", "mealNote"} :
           \E v \in IF id = "mealName" THEN NameInputs ELSE NoteInputs : TypeText(id, v)
    \/ ChoosePhoto
    \/ ClearMealFormClick
    \/ \E i \in 1..Len(meals) : EditClick(i)
    \/ AddClick
    \/ \E t \in tasks : \E blob \in BOOLEAN : AddCompressDone(t, blob)
    \/ \E t \in tasks : AddPutDone(t)
    \/ \E t \in tasks : AddSaveDone(t)
    \/ \E t \in tasks : EditSaveDone(t)
    \/ \E t \in tasks : Timer50(t)
    \/ \E t \in tasks : Timer50SaveDone(t)
    \/ \E t \in tasks : Timer200(t)
    \/ \E t \in tasks : Timer200DelDone(t)

SpecMeals == InitMeals /\ [][NextMeals]_vars

\* what the user supplied in result field id: typed by hand, or loaded from
\* a stored meal by the edit action
UserSupplied(id) == origin[id] \in {"user", "edit"} /\ form[id] # <<>>

\* C24: auto-estimation triggered by typing in the meal name or the note
\* never overwrites a non-empty value of kcalFinal, kcalLow, kcalHigh or
\* mealUnc that the user supplied, typed by hand or loaded from a stored
\* meal by the edit action.
C24_NoOverwrite ==
    [][\A id \in ResultFields : UserSupplied(id) => origin'[id] # "auto"]_vars

\* the meals of the list other than the one the add put there
OtherMeals == {k \in 1..Len(meals) : meals[k].id # scenario.newId}

\* C23: after the user clicked edit on a meal M that has photo P and then
\* clicked add without choosing a new photo, once everything pending has
\* run, either one new meal stands in for M and carries photoId P, or (when
\* the add was rejected by the form validation) no meal was added; in both
\* cases no other meal's photoId has been changed and the editing flags are
\* cleared.
C23_EditThenAdd ==
    (scenario.stage = "added" /\ tasks = {}) =>
        /\ editing = NoEditing
        /\ scenario.accepted =>
               /\ meals # <<>>
               /\ meals[1].id = scenario.newId
               /\ meals[1].photoId = scenario.photo
        /\ \A k \in OtherMeals : <<meals[k].id, meals[k].photoId>> \in scenario.others
        /\ Cardinality(OtherMeals) = Cardinality(scenario.others)

====
